---- MODULE Spec2Model ----
(***************************************************************************)
(* Object model of the provisioning manager: BaseItem / InheritableItem /  *)
(* BootableItem (attribute resolution, parent/child topology, descendants  *)
(* and the dict cache with its invalidation).                              *)
(*                                                                         *)
(* One behaviour follows one inheritable property (`prop`) of every item;  *)
(* the properties resolve independently of each other, so the projection   *)
(* of to_dict on {parent, depth, prop} is what the cache holds here.       *)
(***************************************************************************)
EXTENDS Integers, Sequences, FiniteSets, TLC

\* ------------------------------------------------------------------ bounds

\* Cap on the depth counter (the parent setter can raise it without limit).
MaxDepth == 2

\* ---------------------------------------------------------------- universe

\* The objects of a run and their (static) item type.
Items == {"d1", "p1", "p2", "p3", "s1", "i1", "p4"}

ItemOrder == <<"d1", "p1", "p2", "p3", "s1", "i1", "p4">>

TypeOf(i) ==
    CASE i = "d1" -> "distro"
      [] i \in {"p1", "p2", "p3", "p4"} -> "profile"
      [] i = "i1" -> "image"
      [] OTHER -> "system"

Types == {"distro", "profile", "image", "system"}

\* Python's None for an item lookup, and the outcome of a call that never
\* returns (unbounded loop / recursion over a cyclic parent relation).
NONE == "<none>"
DIVERGES == "<diverges>"

\* ------------------------------------------------------------------ values

Keys == {"k"}
Vals == {"1", "2"}

\* A stored or resolved attribute value: the inherit sentinel, a scalar
\* (e.g. an owners list, kept opaque) or a mapping (set of key/value pairs).
Inherit == [k |-> "inherit", s |-> "", m |-> {}]
Scalar(x) == [k |-> "scalar", s |-> x, m |-> {}]
Dict(m) == [k |-> "dict", s |-> "", m |-> m]

\* A value that is neither a string nor a list nor a mapping (a number).
Number == [k |-> "int", s |-> "", m |-> {}]

\* A member of an enum, by its value.
Enum(x) == [k |-> "enum", s |-> x, m |-> {}]

Mappings == {m \in SUBSET (Keys \X Vals) : \A a, b \in m : a[1] = b[1] => a = b}

DomOf(m) == {e[1] : e \in m}

\* dict.update(): the entries of `over` replace those of `base` key by key.
Update(base, over) == {e \in base : e[1] \notin DomOf(over)} \cup over

\* The properties followed and how each is declared.
Props == {"owners", "kernel_options", "kernel_options_post", "boot_files"}
DictProps == {"kernel_options", "kernel_options_post", "boot_files"}
EnumProps == {"virt_type"}
ScalarProps == {"owners", "proxy_url_ext"}

\* isinstance(getattr(type(self), name[1:]), (InheritableProperty, InheritableDictProperty))
IsInheritableDecl(attr) ==
    attr \in {"owners", "kernel_options", "kernel_options_post", "autoinstall_meta"}

\* ------------------------------------------------------------------ tables

TYPE_DEPENDENCIES(t) ==
    CASE t = "repo" -> << <<"profile", "repos">> >>
      [] t = "distro" -> << <<"profile", "distro">> >>
      [] t = "menu" -> << <<"menu", "parent">>, <<"image", "menu">>, <<"profile", "menu">> >>
      [] t = "profile" -> << <<"profile", "parent">>, <<"system", "profile">> >>
      [] t = "image" -> << <<"system", "image">> >>
      [] OTHER -> << >>

\* The table with the pairs of a system the other way round.
LOGICAL_INHERITANCE_profile_first(t) ==
    CASE t = "profile" -> << <<"distro", "distro">> >>
      [] t = "system" -> << <<"profile", "profile">>, <<"image", "image">> >>
      [] OTHER -> << >>

\* LOGICAL_INHERITANCE[t][0]: the (previous level type, attribute) pairs.
LOGICAL_INHERITANCE(t) ==
    CASE t = "profile" -> << <<"distro", "distro">> >>
      [] t = "system" -> << <<"image", "image">>, <<"profile", "profile">> >>
      [] OTHER -> << >>

\* ------------------------------------------------------------------- state

VARIABLES
    live,           \* objects constructed so far
    listing,        \* the listing of every collection: key -> entry
    name,           \* _name of every object
    uid,            \* _uid of every object
    inmemory,       \* _inmemory of every object
    parent,         \* _parent of every object (a name, "" = none)
    depth,          \* _depth of every object
    ref,            \* cross-type reference attributes (_distro, _profile, _image)
    prop,           \* the inheritable property this behaviour follows
    stored,         \* the private attribute "_" + prop of every object
    settings,       \* the settings attributes that exist, with their values
    cache_enabled,  \* settings.cache_enabled
    cache,          \* ItemCache of every object: the raw and the resolved slot
    last,           \* the last call made, as far as the properties below need it
    threads,        \* the holder of the collection lock and every thread's
                    \* position inside the uid setter
    export,         \* _template_files of every object, what the cached dicts
                    \* hold besides parent, depth and the property, and the
                    \* dict the last to_dict or serialize call handed out
    store,          \* the persistent store: the mapping saved for every object
    has_initialized \* _has_initialized of every object

vars == <<live, listing, name, uid, inmemory, parent, depth, ref, prop, stored, settings,
          cache_enabled, cache, last, threads, export, store, has_initialized>>

\* The state that only the runs with concurrent callers change.
aux == <<threads, export, store, has_initialized>>

NameOf(i) == name[i]

\* ------------------------------------------------------- registry look-ups

\* str.lower() on the names used here.
Lower(nm) ==
    CASE nm = "P1" -> "p1"
      [] nm = "P2" -> "p2"
      [] OTHER -> nm

\* An entry of a listing: the object and the uid it was hashed under when
\* it was put there.
Entry(o, h) == [item |-> o, hash |-> h]

EmptyListing == [t \in Types |-> [k \in {} |-> Entry(NONE, "")]]

\* collection.listing[key] = item
ListingPut(l, t, k, o, h) ==
    [l EXCEPT ![t] = [x \in DOMAIN l[t] \cup {k} |->
                         IF x = k THEN Entry(o, h) ELSE l[t][x]]]

\* collection.listing.pop(key)
ListingPop(l, t, k) ==
    [l EXCEPT ![t] = [x \in DOMAIN l[t] \ {k} |-> l[t][x]]]

\* The objects stored in some collection's listing.
indexed == UNION {{listing[t][k].item : k \in DOMAIN listing[t]} : t \in Types}

\* api.get_items(type).get(name)
CollectionGet(t, nm) ==
    IF Lower(nm) \in DOMAIN listing[t] THEN listing[t][Lower(nm)].item ELSE NONE

\* The stored value of a reference attribute as find_items sees it.
AttrOf(o, attr) ==
    IF attr = "parent" THEN parent[o]
    ELSE IF attr \in DOMAIN ref[o] THEN ref[o][attr]
    ELSE ""

\* api.find_items(type, {attr: name}, return_list=True)
FindItems(t, attr, nm) ==
    {o \in indexed : TypeOf(o) = t /\ nm # "" /\ AttrOf(o, attr) = nm}

\* -------------------------------------------------------- parent and tree

\* parent (getter)
ParentObj(i) ==
    IF parent[i] = "" THEN NONE ELSE CollectionGet(TypeOf(i), parent[i])

\* children
Children(i) ==
    {o \in indexed : TypeOf(o) = TypeOf(i) /\ parent[o] = NameOf(i)}

ChildrenSeq(i) == SelectSeq(ItemOrder, LAMBDA o : o \in Children(i))

\* The while loop of get_conceptual_parent: climb parent links to the root.
\* A cyclic chain never leaves the loop.
RECURSIVE Climb(_, _)
Climb(i, n) ==
    IF ParentObj(i) = NONE THEN i
    ELSE IF n = 0 THEN DIVERGES
    ELSE Climb(ParentObj(i), n - 1)

RootOf(i) == Climb(i, Cardinality(Items))

\* The table look-up of get_conceptual_parent on the root object.
RECURSIVE FirstResolvable(_, _, _)
FirstResolvable(root, levels, n) ==
    IF n > Len(levels) THEN NONE
    ELSE LET nm == AttrOf(root, levels[n][2])
             item == CollectionGet(levels[n][1], nm)
         IN IF nm # "" /\ item # NONE THEN item
            ELSE FirstResolvable(root, levels, n + 1)

get_conceptual_parent(i) ==
    LET root == RootOf(i)
    IN IF root = DIVERGES THEN DIVERGES
       ELSE FirstResolvable(root, LOGICAL_INHERITANCE(TypeOf(root)), 1)

logical_parent(i) ==
    IF ParentObj(i) = NONE THEN get_conceptual_parent(i) ELSE ParentObj(i)

\* api.settings() as an element of the list grab_tree returns.
SETTINGS == "<settings>"

\* A grab_tree that climbs the direct parents only.
RECURSIVE GrabParentsFrom(_, _)
GrabParentsFrom(i, n) ==
    IF ParentObj(i) = NONE THEN [ok |-> TRUE, v |-> << >>]
    ELSE IF n = 0 THEN [ok |-> FALSE, v |-> << >>]
    ELSE LET up == GrabParentsFrom(ParentObj(i), n - 1)
         IN [ok |-> up.ok, v |-> IF up.ok THEN <<ParentObj(i)>> \o up.v ELSE << >>]

grab_tree_parents(i) ==
    LET up == GrabParentsFrom(i, Cardinality(Items) + 1)
    IN [ok |-> up.ok, v |-> IF up.ok THEN <<i>> \o up.v \o <<SETTINGS>> ELSE << >>]

\* The while loop of grab_tree: the logical parents above i, nearest first;
\* ok = FALSE when the loop never ends.
RECURSIVE GrabTreeFrom(_, _)
GrabTreeFrom(i, n) ==
    IF logical_parent(i) = NONE THEN [ok |-> TRUE, v |-> << >>]
    ELSE IF n = 0 \/ logical_parent(i) = DIVERGES THEN [ok |-> FALSE, v |-> << >>]
    ELSE LET up == GrabTreeFrom(logical_parent(i), n - 1)
         IN [ok |-> up.ok, v |-> IF up.ok THEN <<logical_parent(i)>> \o up.v ELSE << >>]

\* grab_tree: [ok, v] with v the list returned.
grab_tree(i) ==
    LET up == GrabTreeFrom(i, Cardinality(Items) + 1)
    IN [ok |-> up.ok, v |-> IF up.ok THEN <<i>> \o up.v \o <<SETTINGS>> ELSE << >>]

\* tree_walk: depth first, pre-order; [ok, v] with ok = FALSE when the
\* recursion never ends (RecursionError).
RECURSIVE TreeWalkFrom(_, _)
RECURSIVE TreeWalkList(_, _)
TreeWalkFrom(i, n) ==
    IF n = 0 THEN [ok |-> FALSE, v |-> << >>]
    ELSE TreeWalkList(ChildrenSeq(i), n)

TreeWalkList(cs, n) ==
    IF cs = << >> THEN [ok |-> TRUE, v |-> << >>]
    ELSE LET sub == TreeWalkFrom(Head(cs), n - 1)
             rest == TreeWalkList(Tail(cs), n)
         IN IF sub.ok /\ rest.ok
            THEN [ok |-> TRUE, v |-> <<Head(cs)>> \o sub.v \o rest.v]
            ELSE [ok |-> FALSE, v |-> << >>]

\* A tree_walk that appends the walks of the children after all of them.
RECURSIVE WalksOf(_)
WalksOf(cs) ==
    IF cs = << >> THEN << >>
    ELSE TreeWalkFrom(Head(cs), Cardinality(Items) + 1).v \o WalksOf(Tail(cs))

tree_walk_level(i) ==
    IF TreeWalkFrom(i, Cardinality(Items) + 1).ok
    THEN [ok |-> TRUE, v |-> ChildrenSeq(i) \o WalksOf(ChildrenSeq(i))]
    ELSE [ok |-> FALSE, v |-> << >>]

tree_walk(i) == TreeWalkFrom(i, Cardinality(Items) + 1)

SeqToSet(s) == {s[x] : x \in DOMAIN s}

\* descendants: [ok, v] with v the result set.
RECURSIVE DescendantsFrom(_, _)
DescendantsFrom(i, n) ==
    IF n = 0 THEN [ok |-> FALSE, v |-> {}]
    ELSE LET tw == tree_walk(i)
         IN IF ~tw.ok THEN [ok |-> FALSE, v |-> {}]
            ELSE LET childs == SeqToSet(tw.v) \cup {i}
                     deps == UNION {
                         UNION {FindItems(TYPE_DEPENDENCIES(TypeOf(c))[x][1],
                                          TYPE_DEPENDENCIES(TypeOf(c))[x][2],
                                          NameOf(c))
                                : x \in DOMAIN TYPE_DEPENDENCIES(TypeOf(c))}
                         : c \in childs}
                     subs == [d \in deps |-> DescendantsFrom(d, n - 1)]
                 IN IF \A d \in deps : subs[d].ok
                    THEN [ok |-> TRUE,
                          v |-> SeqToSet(tw.v) \cup deps \cup UNION {subs[d].v : d \in deps}]
                    ELSE [ok |-> FALSE, v |-> {}]

descendants(i) == DescendantsFrom(i, Cardinality(Items) + 1)

\* ------------------------------------------------------------ resolution

\* A call's outcome: st is "ok", "unresolved" (AttributeError: neither a
\* parent nor the settings have the property) or "diverges".
Ok(v) == [st |-> "ok", v |-> v]
Unresolved == [st |-> "unresolved", v |-> Inherit]
Diverged == [st |-> "diverges", v |-> Inherit]

\* str.startswith("proxy_url_") on the property names used here.
IsProxyUrl(p) == p \in {"proxy_url_ext", "proxy_url_int"}

\* __common_resolve: the private attribute read for a property.
AttributeName(p) == IF IsProxyUrl(p) THEN "proxy" ELSE p

\* A __common_resolve that sends the proxy_url_ properties to the settings
\* attribute proxy.
SettingsName_proxy(p) ==
    IF IsProxyUrl(p) THEN "proxy"
    ELSE IF p = "owners" THEN "default_ownership"
    ELSE p

\* __common_resolve: the settings attribute consulted for a property.
SettingsName(p) == IF p = "owners" THEN "default_ownership" ELSE p

\* f"default_{settings_name}"
DefaultName(n) ==
    CASE n = "default_ownership" -> "default_default_ownership"
      [] n = "kernel_options" -> "default_kernel_options"
      [] n = "kernel_options_post" -> "default_kernel_options_post"
      [] n = "boot_files" -> "default_boot_files"
      [] n = "autoinstall_meta" -> "default_autoinstall_meta"
      [] n = "virt_type" -> "default_virt_type"
      [] n = "proxy_url_ext" -> "default_proxy_url_ext"
      [] n = "proxy" -> "default_proxy"
      [] n = "owners" -> "default_owners"
      [] OTHER -> "default_default_"

\* utils.dict_annihilate: entries marked for removal are dropped.
REMOVED == "<<removed>>"
dict_annihilate(m) == {e \in m : e[2] # REMOVED}

RECURSIVE Getter(_, _)
RECURSIVE resolve_dict(_, _)

\* hasattr(obj, property_name) / getattr(obj, property_name): the getter of
\* the object, if there is an object.
GetterOf(o, p) == IF o = NONE THEN Unresolved ELSE Getter(o, p)

\* The if / elif chain of __resolve_get_parent_or_settings over the
\* outcomes pr of the parent's getter and cr of the conceptual parent's.
\* hasattr() is False when the getter raises AttributeError; any other
\* outcome of the getter stands.
FirstSource(pr, cr, settings_name) ==
    IF pr.st # "unresolved" THEN pr
    ELSE IF cr.st # "unresolved" THEN cr
    ELSE IF settings_name \in DOMAIN settings
    THEN Ok(settings[settings_name])
    ELSE IF DefaultName(settings_name) \in DOMAIN settings
    THEN Ok(settings[DefaultName(settings_name)])
    ELSE Unresolved

\* __resolve_get_parent_or_settings
resolve_get_parent_or_settings(i, p, settings_name) ==
    IF get_conceptual_parent(i) = DIVERGES THEN Diverged
    ELSE FirstSource(GetterOf(ParentObj(i), p),
                     GetterOf(get_conceptual_parent(i), p), settings_name)

\* A BaseItem._resolve that does not look for the default_ variant.
base_resolve_no_default(i, p) ==
    IF stored[i] = Inherit
    THEN IF SettingsName(p) \in DOMAIN settings
         THEN [st |-> "ok", v |-> settings[SettingsName(p)], msg |-> << >>]
         ELSE [st |-> "unresolved", v |-> Inherit, msg |-> <<TypeOf(i), NameOf(i), p>>]
    ELSE [st |-> "ok", v |-> stored[i], msg |-> << >>]

\* BaseItem._resolve: the outcome, with what the text of the AttributeError
\* names.
base_resolve(i, p) ==
    IF stored[i] = Inherit
    THEN IF SettingsName(p) \in DOMAIN settings
         THEN [st |-> "ok", v |-> settings[SettingsName(p)], msg |-> << >>]
         ELSE IF DefaultName(SettingsName(p)) \in DOMAIN settings
         THEN [st |-> "ok", v |-> settings[DefaultName(SettingsName(p))], msg |-> << >>]
         ELSE [st |-> "unresolved", v |-> Inherit, msg |-> <<TypeOf(i), NameOf(i), p>>]
    ELSE [st |-> "ok", v |-> stored[i], msg |-> << >>]

\* InheritableItem._resolve
resolve(i, p) ==
    IF stored[i] = Inherit
    THEN resolve_get_parent_or_settings(i, p, SettingsName(p))
    ELSE Ok(stored[i])

\* enum_type(possible_return): the member with that value; a member is
\* returned as it is.
enum_type(v) == IF v.k = "enum" THEN v ELSE Enum(v.s)

\* getattr(attribute_value, "value", "")
Unwrap(v) == IF v.k = "enum" THEN v.s ELSE ""

\* enum_type(possible_return) on the outcome of the look-up.
AsEnum(r) == IF r.st = "ok" THEN Ok(enum_type(r.v)) ELSE r

\* InheritableItem._resolve_enum: the parents and the settings are asked
\* with the unwrapped value in the place of the property name.
resolve_enum(i, p) ==
    IF Unwrap(stored[i]) = "<<inherit>>"
    THEN AsEnum(resolve_get_parent_or_settings(i, Unwrap(stored[i]), SettingsName(p)))
    ELSE Ok(stored[i])

\* The merge of _resolve_dict of the object's own attribute value over the
\* outcome cr of the conceptual parent's getter.
MergeOver(cr, own, p) ==
    IF cr.st = "diverges" THEN Diverged
    ELSE LET base == IF cr.st = "ok" THEN cr.v.m
                     ELSE IF p \in DOMAIN settings THEN settings[p].m
                     ELSE {}
             merged == IF own = Inherit THEN base
                       ELSE Update(base, own.m)
         IN Ok(Dict(dict_annihilate(merged)))

\* InheritableItem._resolve_dict
resolve_dict(i, p) ==
    IF get_conceptual_parent(i) = DIVERGES THEN Diverged
    ELSE MergeOver(GetterOf(get_conceptual_parent(i), p), stored[i], p)

\* The property getters: owners, virt_type, kernel_options,
\* kernel_options_post, boot_files, autoinstall_meta. An object has no
\* attribute of any other name (AttributeError).
Getter(i, p) ==
    CASE p = "owners" -> resolve(i, p)
      [] p \in EnumProps -> resolve_enum(i, p)
      [] p \in DictProps \cup {"autoinstall_meta"} -> resolve_dict(i, p)
      [] OTHER -> Unresolved

\* The outcome of _deduplicate_dict when a getter it calls does not return.
DedupDiverges(pr, cr) == pr.st = "diverges" \/ (pr.st # "ok" /\ cr.st = "diverges")

\* The pairs of every source.
Everywhere(pr, cr, settings_name) ==
    (IF pr.st = "ok" THEN pr.v.m ELSE {})
    \cup (IF cr.st = "ok" THEN cr.v.m ELSE {})
    \cup (IF settings_name \in DOMAIN settings
          THEN settings[settings_name].m ELSE {})
    \cup (IF DefaultName(settings_name) \in DOMAIN settings
          THEN settings[DefaultName(settings_name)].m ELSE {})

DedupAgainstAny(pr, cr, settings_name, value) ==
    IF DedupDiverges(pr, cr) THEN Diverged
    ELSE Ok(Dict({e \in value : e \notin Everywhere(pr, cr, settings_name)}))

\* A _deduplicate_dict that removes a pair found in any of the sources.
deduplicate_dict_any(i, p, value) ==
    IF get_conceptual_parent(i) = DIVERGES THEN Diverged
    ELSE DedupAgainstAny(GetterOf(ParentObj(i), p),
                         GetterOf(get_conceptual_parent(i), p), SettingsName(p), value)

\* The if / elif chain of _deduplicate_dict that picks parent_value, over
\* the outcomes pr of the parent's getter and cr of the conceptual parent's.
ParentValue(pr, cr, settings_name) ==
    IF pr.st = "ok" THEN pr.v.m
    ELSE IF cr.st = "ok" THEN cr.v.m
    ELSE IF settings_name \in DOMAIN settings
    THEN settings[settings_name].m
    ELSE IF DefaultName(settings_name) \in DOMAIN settings
    THEN settings[DefaultName(settings_name)].m
    ELSE {}

\* The loop of _deduplicate_dict: the pairs equal to parent_value's go.
DedupAgainst(pr, cr, settings_name, value) ==
    IF DedupDiverges(pr, cr) THEN Diverged
    ELSE Ok(Dict({e \in value : e \notin ParentValue(pr, cr, settings_name)}))

\* InheritableItem._deduplicate_dict
deduplicate_dict(i, p, value) ==
    IF get_conceptual_parent(i) = DIVERGES THEN Diverged
    ELSE DedupAgainst(GetterOf(ParentObj(i), p),
                      GetterOf(get_conceptual_parent(i), p), SettingsName(p), value)

\* ------------------------------------------------------------------- cache

\* What to_dict exports of an object here: parent, depth and the property.
Snapshot(par, dep, val) == [parent |-> par, depth |-> dep, val |-> val]

\* One slot of ItemCache._cached_dict: None, or a dict.
EmptySlot == [full |-> FALSE, d |-> Snapshot("", 0, Inherit)]
FullSlot(d) == [full |-> TRUE, d |-> d]

SlotName(resolved) == IF resolved THEN "res" ELSE "raw"

\* ItemCache.set_dict_cache(value, resolved)
set_dict_cache(c, i, slot, resolved) ==
    IF cache_enabled THEN [c EXCEPT ![i][SlotName(resolved)] = slot] ELSE c

\* ItemCache.clean_dict_cache()
clean_dict_cache(c, i) ==
    set_dict_cache(set_dict_cache(c, i, EmptySlot, TRUE), i, EmptySlot, FALSE)

\* An invalidation that empties both slots of the descendants.
InvalidateDescendants_both(c, ds) ==
    [o \in Items |-> IF o \in ds THEN clean_dict_cache(c, o)[o] ELSE c[o]]

\* InheritableItem._clean_dict_cache(name); [ok, c], ok = FALSE when the
\* descendants cannot be computed.
InvalidateDescendants(c, ds) ==
    [o \in Items |-> IF o \in ds THEN set_dict_cache(c, o, EmptySlot, TRUE)[o] ELSE c[o]]

\* A _clean_dict_cache that does not ask whether the object is in its
\* collection.
clean_dict_cache_of_any(c, i, attr) ==
    IF IsInheritableDecl(attr) /\ TypeOf(i) # "inheritableitem"
    THEN LET ds == descendants(i)
         IN IF ds.ok
            THEN [ok |-> TRUE, c |-> clean_dict_cache(InvalidateDescendants(c, ds.v), i)]
            ELSE [ok |-> FALSE, c |-> c]
    ELSE [ok |-> TRUE, c |-> clean_dict_cache(c, i)]

clean_dict_cache_of(c, i, attr) ==
    IF IsInheritableDecl(attr)
       /\ TypeOf(i) # "inheritableitem"
       /\ CollectionGet(TypeOf(i), NameOf(i)) # NONE
    THEN LET ds == descendants(i)
         IN IF ds.ok
            THEN [ok |-> TRUE, c |-> clean_dict_cache(InvalidateDescendants(c, ds.v), i)]
            ELSE [ok |-> FALSE, c |-> c]
    ELSE [ok |-> TRUE, c |-> clean_dict_cache(c, i)]

\* A clean_cache that reaches the cache only for the attributes declared
\* inheritable (what the code would do with the own-cache cleaning moved
\* inside the propagation branch).
clean_cache_inheritable_only(c, i, attr) ==
    IF cache_enabled /\ inmemory[i] /\ IsInheritableDecl(attr)
    THEN clean_dict_cache_of(c, i, attr)
    ELSE [ok |-> TRUE, c |-> c]

\* InheritableItem.clean_cache(name)
clean_cache(c, i, attr) ==
    IF ~cache_enabled THEN [ok |-> TRUE, c |-> c]
    ELSE IF inmemory[i] THEN clean_dict_cache_of(c, i, attr)
    ELSE [ok |-> TRUE, c |-> c]

\* __setattr__ before it assigns a to_dict attribute: clean_cache(name)
\* once the object has been initialized, nothing before.
setattr_clean(c, i, attr) ==
    IF has_initialized[i] THEN clean_cache(c, i, attr)
    ELSE [ok |-> TRUE, c |-> c]

\* A to_dict that exports every value as it is stored, whatever the flag.
ComputeToDict_raw(i, resolved) ==
    [st |-> "ok", d |-> Snapshot(parent[i], depth[i], stored[i])]

\* The dict to_dict builds when nothing is cached.
ComputeToDict(i, resolved) ==
    LET val == IF resolved /\ stored[i].k \in {"dict", "inherit"}
               THEN Getter(i, prop)
               ELSE Ok(stored[i])
    IN [st |-> val.st, d |-> Snapshot(parent[i], depth[i], val.v)]

\* ----------------------------------------------------------------- actions

\* The record of the last call: a setter that stored its value on an object
\* whose cache held a dict ("set", "set_parent", with the object), a setter
\* that raised ("raised"), or any other call ("other").
Call(op, i) == [op |-> op, item |-> i]
Quiet == Call("other", NONE)

\* Whether one of the object's own cache slots holds a dict.
Warm(i) == cache[i].raw.full \/ cache[i].res.full

Stored(op, i) == IF Warm(i) THEN Call(op, i) ELSE Quiet

\* The values the setters are called with.
OwnersInputs == {Inherit, Scalar("a"), Scalar("b")}
DictInputs == {Inherit} \cup {Dict(m) : m \in Mappings}
EnumInputs == {Enum("<<inherit>>"), Enum("kvm"), Enum("qemu")}
SetterInputs ==
    CASE prop \in ScalarProps -> OwnersInputs
      [] prop \in EnumProps -> EnumInputs
      [] OTHER -> DictInputs

\* The smaller set used where the dict cache is followed as well.
CacheInputs ==
    IF prop = "owners" THEN {Inherit, Scalar("a")}
    ELSE {Dict({}), Dict({<<"k", "1">>})}

\* The settings objects a run may have: the attribute, only its default_
\* variant, or neither.
SettingsValue(p) ==
    CASE p = "owners" -> Scalar("s")
      [] p \in EnumProps -> Scalar("xenpv")
      [] OTHER -> Dict({<<"k", "2">>})

SettingsChoices(p) ==
    {[n \in {} |-> SettingsValue(p)],
     [n \in {SettingsName(p)} |-> SettingsValue(p)],
     [n \in {DefaultName(SettingsName(p))} |-> SettingsValue(p)]}

\* The reference attributes the constructor seeds an object with.
RefChoices(i) ==
    CASE i = "p4" -> {[distro |-> ""]}
      [] TypeOf(i) = "profile" -> {[distro |-> n] : n \in {"", "d1"}}
      [] TypeOf(i) = "system" -> {[profile |-> n, image |-> ""] : n \in {"", "p1", "p2"}}
      [] OTHER -> {[none |-> ""]}

\* The attribute values __init__ leaves behind.
InitStored(p) ==
    CASE p \in ScalarProps -> Inherit
      [] p \in EnumProps -> Enum("<<inherit>>")
      [] OTHER -> Dict({})

\* The name and uid the constructor is seeded with.
InitName == [i \in Items |-> i]

InitUid ==
    [i \in Items |->
        CASE i = "d1" -> "u-d1" [] i = "p1" -> "u-p1" [] i = "p2" -> "u-p2"
          [] i = "p3" -> "u-p3" [] i = "p4" -> "u-p4" [] i = "i1" -> "u-i1"
          [] OTHER -> "u-s1"]

\* The listings after the objects of S were added under their names.
RECURSIVE ListingOfSeq(_, _)
ListingOfSeq(S, n) ==
    IF n = 0 THEN EmptyListing
    ELSE LET o == ItemOrder[n]
             l == ListingOfSeq(S, n - 1)
         IN IF o \in S
            THEN ListingPut(l, TypeOf(o), Lower(InitName[o]), o, InitUid[o])
            ELSE l

ListingOf(S) == ListingOfSeq(S, Len(ItemOrder))

\* The threads calling the uid setter; at rest, none holds the lock.
Threads == {"t1", "t2"}
Idle == [pc |-> "idle", item |-> NONE, u |-> "", key |-> ""]
IdleThreads == [lock |-> NONE, t |-> [th \in Threads |-> Idle]]

\* enums.VALUE_INHERITED, as the text of a string attribute.
VALUE_INHERITED == "<<inherit>>"

\* The rest of a dict built by to_dict: whether it has the legacy alias
\* keys, its template_files value: the object's own dict (live) or
\* another dict, with its entries, and its comment value.
Rest(ks, lv, m, c) == [ks_meta |-> ks, live |-> lv, m |-> m, comment |-> c]
NoDict == [item |-> NONE, resolved |-> FALSE]
InitExport ==
    [tf |-> [i \in Items |-> {}],
     comment |-> [i \in Items |-> ""],
     rest |-> [i \in Items |-> [raw |-> Rest(FALSE, FALSE, {}, ""),
                                res |-> Rest(FALSE, FALSE, {}, "")]],
     handed |-> NoDict]

\* comment (getter)
GetComment(i) == export.comment[i]

\* The comment value to_dict exports: a string equal to the sentinel is read
\* through the getter when resolved, any other string is taken as stored.
ExportComment(i, resolved) ==
    IF export.comment[i] = VALUE_INHERITED /\ resolved
    THEN GetComment(i)
    ELSE export.comment[i]

\* What the store holds of an object: the attributes followed here.
Saved(pn, d, r, v) == [parent |-> pn, depth |-> d, ref |-> r, val |-> v]

Fresh ==
    /\ threads = IdleThreads
    /\ export = InitExport
    /\ store = [i \in Items |-> Saved("", 0, ref[i], InitStored(prop))]
    /\ has_initialized = [i \in Items |-> TRUE]
    /\ name = InitName
    /\ uid = InitUid
    /\ inmemory = [i \in Items |-> TRUE]
    /\ parent = [i \in Items |-> ""]
    /\ depth = [i \in Items |-> 0]
    /\ stored = [i \in Items |-> InitStored(prop)]
    /\ cache = [i \in Items |-> [raw |-> EmptySlot, res |-> EmptySlot]]
    /\ last = Quiet

\* Collection.add: the object enters its collection's listing.
Add(i) ==
    /\ i \in live \ indexed
    /\ CollectionGet(TypeOf(i), NameOf(i)) = NONE
    /\ listing' = ListingPut(listing, TypeOf(i), Lower(NameOf(i)), i, uid[i])
    /\ last' = Quiet
    /\ UNCHANGED <<live, name, uid, inmemory, parent, depth, ref, prop, stored, settings,
                   cache_enabled, cache,
                   aux>>

\* A setter that raised: nothing but the record of the call changes.
Raised ==
    /\ last' = Call("raised", NONE)
    /\ UNCHANGED <<live, listing, name, uid, inmemory, parent, depth, ref, prop, stored,
                   settings, cache_enabled, cache,
                   aux>>

\* A parent setter that stores the name before it looks the parent up.
SetParent_store_first(i, pname) ==
    /\ i \in live
    /\ IF pname # "" /\ (pname = NameOf(i) \/ CollectionGet(TypeOf(i), pname) = NONE)
       THEN /\ parent' = [parent EXCEPT ![i] = pname]
            /\ cache' = setattr_clean(cache, i, "parent").c
            /\ last' = Call("raised", NONE)
            /\ UNCHANGED <<live, listing, name, uid, inmemory, depth, ref, prop, stored,
                           settings, cache_enabled, aux>>
       ELSE /\ pname # "" => depth[CollectionGet(TypeOf(i), pname)] < MaxDepth
            /\ parent' = [parent EXCEPT ![i] = pname]
            /\ depth' = [depth EXCEPT ![i] =
                            IF pname = "" THEN depth[i]
                            ELSE depth[CollectionGet(TypeOf(i), pname)] + 1]
            /\ cache' = setattr_clean(cache, i, "parent").c
            /\ last' = Stored("set_parent", i)
            /\ UNCHANGED <<live, listing, name, uid, inmemory, ref, prop, stored,
                           settings, cache_enabled, aux>>

\* parent (setter). Both assignments pass through __setattr__, which cleans
\* the cache before it stores the value.
SetParent(i, pname) ==
    /\ i \in live
    /\ LET found == CollectionGet(TypeOf(i), pname)
           cc == setattr_clean(cache, i, "parent")
       IN IF pname = ""
          THEN /\ parent' = [parent EXCEPT ![i] = ""]
               /\ cache' = cc.c
               /\ last' = Stored("set_parent", i)
               /\ UNCHANGED <<live, listing, name, uid, inmemory, depth, ref, prop, stored,
                              settings, cache_enabled,
                   aux>>
          ELSE IF pname = NameOf(i) \/ found = NONE
          THEN Raised
          ELSE /\ depth[found] < MaxDepth
               /\ parent' = [parent EXCEPT ![i] = pname]
               /\ depth' = [depth EXCEPT ![i] = depth[found] + 1]
               /\ cache' = cc.c
               /\ last' = Stored("set_parent", i)
               /\ UNCHANGED <<live, listing, name, uid, inmemory, ref, prop, stored,
                              settings, cache_enabled,
                   aux>>

\* The value a setter stores for its argument: kernel_options and
\* autoinstall_meta remove what the parent chain supplies, the others store
\* the argument.
SetterValue(i, v) ==
    IF prop \in {"kernel_options", "autoinstall_meta"} /\ v # Inherit
    THEN deduplicate_dict(i, prop, v.m)
    ELSE Ok(v)

\* owners / kernel_options / kernel_options_post / boot_files /
\* autoinstall_meta (setters)
SetAttr(i, v) ==
    /\ i \in live
    /\ LET nv == SetterValue(i, v)
           cc == setattr_clean(cache, i, prop)
       IN IF v.k # "int" /\ nv.st = "ok" /\ cc.ok
          THEN /\ stored' = [stored EXCEPT ![i] = nv.v]
               /\ cache' = cc.c
               /\ last' = Stored("set", i)
               /\ UNCHANGED <<live, listing, name, uid, inmemory, parent, depth, ref, prop,
                              settings, cache_enabled,
                   aux>>
          ELSE Raised

\* to_dict(resolved): the cached dict if there is one, else a new dict,
\* which is put in the cache. The call is followed while every object is
\* loaded: on a name-only object it starts by reloading it from the store.
ToDict(i, resolved) ==
    /\ i \in live
    /\ \A o \in live : inmemory[o]
    /\ LET slot == cache[i][SlotName(resolved)]
           r == ComputeToDict(i, resolved)
       IN IF ~slot.full /\ r.st = "ok"
          THEN cache' = set_dict_cache(cache, i, FullSlot(r.d), resolved)
          ELSE UNCHANGED cache
    /\ last' = Quiet
    /\ UNCHANGED <<live, listing, name, uid, inmemory, parent, depth, ref, prop, stored,
                   settings, cache_enabled,
                   aux>>

\* inmemory (setter): _inmemory is not one of the to_dict keys, so
\* __setattr__ stores it without touching the cache.
SetInmemory(i, b) ==
    /\ i \in live
    /\ inmemory' = [inmemory EXCEPT ![i] = b]
    /\ last' = Quiet
    /\ UNCHANGED <<live, listing, name, uid, parent, depth, ref, prop, stored, settings,
                   cache_enabled, cache,
                   aux>>

\* settings.cache_enabled is switched while the program runs.
SetCacheEnabled(b) ==
    /\ cache_enabled' = b
    /\ last' = Quiet
    /\ UNCHANGED <<live, listing, name, uid, inmemory, parent, depth, ref, prop,
                   stored, settings, cache,
                   aux>>

\* RE_OBJECT_NAME.match(name) on the names used here.
ValidName(nm) == nm # "p 2"

\* A name setter that also draws a new uid for the renamed object.
SetName_new_uid(i, nm) ==
    /\ i \in live
    /\ ValidName(nm)
    /\ name' = [name EXCEPT ![i] = nm]
    /\ uid' = [uid EXCEPT ![i] = "x"]
    /\ cache' = setattr_clean(cache, i, "name").c
    /\ last' = Call("set_name", i)
    /\ UNCHANGED <<live, listing, inmemory, parent, depth, ref, prop, stored,
                   settings, cache_enabled,
                   aux>>

\* name (setter): the type and character checks, then the assignment; the
\* listing is not touched.
SetName(i, nm) ==
    /\ i \in live
    /\ IF ~ValidName(nm)
       THEN Raised
       ELSE /\ name' = [name EXCEPT ![i] = nm]
            /\ cache' = setattr_clean(cache, i, "name").c
            /\ last' = Call("set_name", i)
            /\ UNCHANGED <<live, listing, uid, inmemory, parent, depth, ref, prop,
                           stored, settings, cache_enabled,
                   aux>>

\* uid (setter), run without interruption: an object found in the listing
\* under its lower-cased name is taken out, given the uid and put back.
SetUid(i, u) ==
    /\ i \in live
    /\ LET t == TypeOf(i)
           k == Lower(NameOf(i))
       IN IF uid[i] # u /\ t # "baseitem" /\ CollectionGet(t, k) # NONE
          THEN listing' = ListingPut(ListingPop(listing, t, k), t, k, i, u)
          ELSE UNCHANGED listing
    /\ uid' = [uid EXCEPT ![i] = u]
    /\ cache' = setattr_clean(cache, i, "uid").c
    /\ last' = Call("set_uid", i)
    /\ UNCHANGED <<live, name, inmemory, parent, depth, ref, prop, stored,
                   settings, cache_enabled,
                   aux>>

\* to_dict(resolved) with the dict it returns: the cached dict if there is
\* one; else a new dict, with the alias keys, template_files deep-copied
\* (raw) or read through its getter (resolved), put in the cache.
ToDictHanded(i, resolved) ==
    /\ i \in live
    /\ \A o \in live : inmemory[o]
    /\ LET sn == SlotName(resolved)
           r == ComputeToDict(i, resolved)
       IN IF cache[i][sn].full
          THEN /\ export' = [export EXCEPT !.handed = [item |-> i, resolved |-> resolved]]
               /\ last' = Call("to_dict", i)
               /\ UNCHANGED cache
          ELSE IF r.st = "ok"
          THEN /\ cache' = set_dict_cache(cache, i, FullSlot(r.d), resolved)
               /\ export' = [export EXCEPT
                               !.rest[i][sn] = Rest(TRUE, resolved, export.tf[i],
                                                    ExportComment(i, resolved)),
                               !.handed = [item |-> i, resolved |-> resolved]]
               /\ last' = Call("to_dict", i)
          ELSE /\ last' = Call("raised", NONE)
               /\ UNCHANGED <<cache, export, has_initialized>>
    /\ UNCHANGED <<live, listing, name, uid, inmemory, parent, depth, ref, prop, stored,
                   settings, cache_enabled, threads, store, has_initialized>>

\* serialize(): to_dict(), then the keys to drop are popped from the dict
\* it returned.
Serialize(i) ==
    /\ i \in live
    /\ \A o \in live : inmemory[o]
    /\ LET r == ComputeToDict(i, FALSE)
           built == [export EXCEPT !.rest[i].raw =
                       Rest(TRUE, FALSE, export.tf[i], ExportComment(i, FALSE))]
           after == IF cache[i].raw.full THEN export ELSE built
       IN IF cache[i].raw.full \/ r.st = "ok"
          THEN /\ cache' = IF cache[i].raw.full THEN cache
                           ELSE set_dict_cache(cache, i, FullSlot(r.d), FALSE)
               /\ export' = [after EXCEPT
                               !.rest[i].raw.ks_meta = FALSE,
                               !.handed = [item |-> i, resolved |-> FALSE]]
               /\ last' = Call("serialize", i)
          ELSE /\ last' = Call("raised", NONE)
               /\ UNCHANGED <<cache, export, has_initialized>>
    /\ UNCHANGED <<live, listing, name, uid, inmemory, parent, depth, ref, prop, stored,
                   settings, cache_enabled, threads, store, has_initialized>>

\* template_files (setter): a new dict is stored; __setattr__ cleans the
\* cache first.
SetTemplateFiles(i, m) ==
    /\ i \in live
    /\ LET cc == setattr_clean(cache, i, "template_files")
       IN IF cc.ok
          THEN /\ cache' = cc.c
               /\ export' = [export EXCEPT !.tf[i] = m]
               /\ last' = Stored("set", i)
               /\ UNCHANGED <<live, listing, name, uid, inmemory, parent, depth, ref,
                              prop, stored, settings, cache_enabled, threads, store, has_initialized>>
          ELSE Raised

\* comment (setter): the text is stored as given; __setattr__ cleans the
\* cache first.
SetComment(i, c) ==
    /\ i \in live
    /\ LET cc == setattr_clean(cache, i, "comment")
       IN IF cc.ok
          THEN /\ cache' = cc.c
               /\ export' = [export EXCEPT !.comment[i] = c]
               /\ last' = Stored("set", i)
               /\ UNCHANGED <<live, listing, name, uid, inmemory, parent, depth, ref,
                              prop, stored, settings, cache_enabled, threads, store, has_initialized>>
          ELSE Raised

CommentInputs == {"", VALUE_INHERITED}

\* The caller writes an entry into the template_files mapping of the dict
\* it was handed, while that dict is the one in the cache: the entry lands
\* in that mapping, which is the object's own dict when it is live.
MutateHanded(e) ==
    /\ export.handed # NoDict
    /\ LET i == export.handed.item
           sn == SlotName(export.handed.resolved)
           m == Update(export.rest[i][sn].m, {e})
       IN /\ cache[i][sn].full
          /\ export' = [export EXCEPT
                          !.rest[i][sn].m = m,
                          !.tf[i] = IF export.rest[i][sn].live THEN m ELSE @]
    /\ last' = Call("mutate", export.handed.item)
    /\ UNCHANGED <<live, listing, name, uid, inmemory, parent, depth, ref, prop, stored,
                   settings, cache_enabled, cache, threads, store, has_initialized>>

\* A mapping given to from_dict: its keys in order, and the value under each
\* of the keys followed here (the fields of keys that are absent are unused).
Mapping(order, c, pn, d, v, im) ==
    [order |-> order,
     v |-> [comment |-> c, parent |-> pn, depth |-> d, val |-> v, inmemory |-> im]]

KeySet(order) == {order[n] : n \in 1..Len(order)}

\* _remove_depreacted_dict_keys: children (InheritableItem), ks_meta and
\* kickstart (BootableItem)
IsDeprecatedKey(k) == k \in {"children", "ks_meta", "kickstart"}
remove_deprecated_dict_keys(order) == SelectSeq(order, LAMBDA k : ~IsDeprecatedKey(k))

\* hasattr(self, "_" + lowered_key), for the keys used here
HasAttr(k) == k \in {"comment", "parent", "depth", "inmemory", prop}

\* _deduplicate_dict as it runs inside from_dict, where the object's parent
\* is the one a previous key has just set.
deduplicate_dict_under(i, p, value, pn) ==
    LET par == IF pn = "" THEN NONE ELSE CollectionGet(TypeOf(i), pn)
        cp == IF par = NONE
              THEN FirstResolvable(i, LOGICAL_INHERITANCE(TypeOf(i)), 1)
              ELSE get_conceptual_parent(par)
        settings_name == SettingsName(p)
    IN IF cp = DIVERGES THEN Diverged
       ELSE LET pr == IF par = NONE THEN Unresolved ELSE Getter(par, p)
                cr == IF cp = NONE THEN Unresolved ELSE Getter(cp, p)
                parent_value ==
                    IF pr.st = "ok" THEN pr.v.m
                    ELSE IF cr.st = "ok" THEN cr.v.m
                    ELSE IF settings_name \in DOMAIN settings
                    THEN settings[settings_name].m
                    ELSE IF DefaultName(settings_name) \in DOMAIN settings
                    THEN settings[DefaultName(settings_name)].m
                    ELSE {}
            IN IF pr.st = "diverges" \/ (pr.st # "ok" /\ cr.st = "diverges")
               THEN Diverged
               ELSE Ok(Dict({e \in value : e \notin parent_value}))

\* The private attributes of an object that from_dict writes here, with the
\* keys not consumed and whether a setter raised.
Fields(i) ==
    [comment |-> export.comment[i], parent |-> parent[i], depth |-> depth[i],
     val |-> stored[i], inmemory |-> inmemory[i], left |-> {}, raised |-> FALSE]

\* setattr(self, lowered_key, dictionary[key]): the setter of comment,
\* inmemory, depth or parent.
ApplyKey(i, k, v, s) ==
    CASE k = "comment" -> [s EXCEPT !.comment = v.comment]
      [] k = "inmemory" -> [s EXCEPT !.inmemory = v.inmemory]
      [] k = "depth" -> [s EXCEPT !.depth = v.depth]
      [] k = "parent" ->
            IF v.parent = "" THEN [s EXCEPT !.parent = ""]
            ELSE IF v.parent = NameOf(i) \/ CollectionGet(TypeOf(i), v.parent) = NONE
            THEN [s EXCEPT !.raised = TRUE]
            ELSE [s EXCEPT !.parent = v.parent,
                           !.depth = depth[CollectionGet(TypeOf(i), v.parent)] + 1]
      [] OTHER -> s

\* setattr for the key of the property followed: its setter, which for
\* kernel_options and autoinstall_meta removes what the parent chain supplies.
ApplyProp(i, v, s) ==
    IF prop \in {"kernel_options", "autoinstall_meta"} /\ v.val # Inherit
    THEN LET nv == deduplicate_dict_under(i, prop, v.val.m, s.parent)
         IN IF nv.st = "ok" THEN [s EXCEPT !.val = nv.v]
            ELSE [s EXCEPT !.raised = TRUE]
    ELSE [s EXCEPT !.val = v.val]

\* The loop of from_dict over a run of keys other than the property's, in
\* order; it ends at the first setter that raises.
RECURSIVE ApplyKeys(_, _, _, _, _)
ApplyKeys(i, order, v, n, s) ==
    IF n > Len(order) \/ s.raised THEN s
    ELSE IF HasAttr(order[n])
    THEN ApplyKeys(i, order, v, n + 1, ApplyKey(i, order[n], v, s))
    ELSE ApplyKeys(i, order, v, n + 1, [s EXCEPT !.left = @ \cup {order[n]}])

\* The loop of from_dict over all the keys: those before the property's
\* key, that key, those after it.
ApplyAll(i, order, v, s) ==
    IF prop \notin KeySet(order) THEN ApplyKeys(i, order, v, 1, s)
    ELSE LET pos == CHOOSE n \in 1..Len(order) : order[n] = prop
             s1 == ApplyKeys(i, SubSeq(order, 1, pos - 1), v, 1, s)
             s2 == IF s1.raised THEN s1 ELSE ApplyProp(i, v, s1)
         IN ApplyKeys(i, SubSeq(order, pos + 1, Len(order)), v, 1, s2)

\* A clean_cache() that does nothing.
from_dict_clean_none(c, i, inmem) == c

\* self.clean_cache() at the end of from_dict: no attribute name is given,
\* so only the object's own slots are concerned, and only when it is loaded.
from_dict_clean(c, i, inmem) ==
    IF ~cache_enabled THEN c
    ELSE IF inmem THEN clean_dict_cache(c, i)
    ELSE c

\* The record of a from_dict call: its mapping, whether one of the object's
\* cache slots held a dict before, how the call ended and the keys that the
\* error lists.
FromDictCall(i, D, err, listed) ==
    [op |-> "from_dict", item |-> i, arg |-> D, warm |-> Warm(i),
     fresh |-> (Fields(i) = [comment |-> "", parent |-> "", depth |-> 0,
                             val |-> InitStored(prop), inmemory |-> TRUE,
                             left |-> {}, raised |-> FALSE]),
     error |-> err, listed |-> listed]

\* The end of from_dict on object i, called with D, once the loop over the
\* keys has left the attributes s.
FromDictEnd(i, D, s) ==
    /\ parent' = [parent EXCEPT ![i] = s.parent]
    /\ depth' = [depth EXCEPT ![i] = s.depth]
    /\ stored' = [stored EXCEPT ![i] = s.val]
    /\ inmemory' = [inmemory EXCEPT ![i] = s.inmemory]
    /\ IF s.raised
       THEN /\ UNCHANGED cache
            /\ has_initialized' = [has_initialized EXCEPT ![i] = FALSE]
            /\ last' = FromDictCall(i, D, "setter", {})
       ELSE /\ cache' = from_dict_clean(cache, i, s.inmemory)
            /\ UNCHANGED has_initialized
            /\ last' = FromDictCall(i, D,
                            IF s.left # {} THEN "KeyError" ELSE "none", s.left)

\* from_dict(dictionary) on object i, the mapping given by D.
from_dict(i, D) ==
    LET order == remove_deprecated_dict_keys(D.order)
    IN IF order = << >>
       THEN /\ last' = FromDictCall(i, D, "none", {})
            /\ UNCHANGED <<parent, depth, stored, inmemory, cache, has_initialized>>
            /\ export' = export
       ELSE \E s \in {ApplyAll(i, order, D.v, Fields(i))} :
               /\ FromDictEnd(i, D, s)
               /\ export' = [export EXCEPT !.comment[i] = s.comment]

\* from_dict called with a mapping written out by the caller.
FromDict(i, D) ==
    /\ i \in live
    /\ from_dict(i, D)
    /\ UNCHANGED <<live, listing, name, uid, ref, prop, settings, cache_enabled,
                   threads, store>>

\* The dict a to_dict call handed out, as a mapping: the keys in the order
\* to_dict wrote them.
HandedMapping ==
    LET i == export.handed.item
        sn == SlotName(export.handed.resolved)
        d == cache[i][sn].d
        r == export.rest[i][sn]
    IN Mapping(<<"comment", "parent", "depth", "children", prop>>
                 \o (IF r.ks_meta THEN <<"ks_meta">> ELSE << >>),
               r.comment, d.parent, d.depth, d.val, TRUE)

\* from_dict called with the dict the last to_dict handed out, while that
\* dict is the one in the cache; the deprecated keys are removed from that
\* very dict.
FromDictHanded(i) ==
    /\ i \in live
    /\ export.handed # NoDict
    /\ export.handed.item # i
    /\ cache[export.handed.item][SlotName(export.handed.resolved)].full
    /\ \E D \in {HandedMapping} :
         \E s \in {ApplyAll(i, remove_deprecated_dict_keys(D.order), D.v, Fields(i))} :
            /\ FromDictEnd(i, D, s)
            /\ export' = [export EXCEPT
                  !.comment[i] = s.comment,
                  !.rest[export.handed.item][SlotName(export.handed.resolved)].ks_meta
                      = FALSE]
    /\ UNCHANGED <<live, listing, name, uid, ref, prop, settings, cache_enabled,
                   threads, store>>

\* The constructor, called for a new object that takes the place of i
\* outside the collection.
Construct(i) ==
    /\ i \in live \ indexed
    /\ parent' = [parent EXCEPT ![i] = ""]
    /\ depth' = [depth EXCEPT ![i] = 0]
    /\ stored' = [stored EXCEPT ![i] = InitStored(prop)]
    /\ inmemory' = [inmemory EXCEPT ![i] = TRUE]
    /\ cache' = [cache EXCEPT ![i] = [raw |-> EmptySlot, res |-> EmptySlot]]
    /\ has_initialized' = [has_initialized EXCEPT ![i] = TRUE]
    /\ export' = [export EXCEPT
                    !.comment[i] = "",
                    !.rest[i] = InitExport.rest[i],
                    !.handed = IF @.item = i THEN NoDict ELSE @]
    /\ last' = Quiet
    /\ UNCHANGED <<live, listing, name, uid, ref, prop, settings, cache_enabled,
                   threads, store>>

\* The mappings from_dict is called with.
FromDictInputs ==
    {Mapping(<<"comment", "foo">>, "c", "", 0, Inherit, TRUE),
     Mapping(<<"foo", "comment", "bar">>, "c", "", 0, Inherit, TRUE),
     Mapping(<<"inmemory", "comment", "foo">>, "c", "", 0, Inherit, FALSE),
     Mapping(<<"comment">>, "c", "", 0, Inherit, TRUE),
     Mapping(<<"ks_meta">>, "", "", 0, Inherit, TRUE),
     Mapping(<<"inmemory">>, "", "", 0, Inherit, TRUE),
     Mapping(<<"parent", "kernel_options">>, "", "p1", 0, Dict({<<"k", "1">>}), TRUE),
     Mapping(<<"parent", "comment">>, "c", "p3", 0, Inherit, TRUE)}

\* BaseItem._resolve(property_name), called on object i.
BaseResolve(i) ==
    /\ i \in live
    /\ last' = [op |-> "base_resolve", item |-> i, result |-> base_resolve(i, prop)]
    /\ UNCHANGED <<live, listing, name, uid, inmemory, parent, depth, ref, prop,
                   stored, settings, cache_enabled, cache, threads, export, store, has_initialized>>

\* ---------------------------------------------------------- deserialize

\* The order in which TYPE_DEPENDENCIES.items() yields the item types.
TypeOrder == <<"repo", "distro", "menu", "profile", "image", "system">>

\* The (ancestor type, attribute) pairs the two loops of deserialize reach
\* for an object of type t, in order.
RECURSIVE AncestorDepsFrom(_, _, _)
AncestorDepsFrom(t, n, x) ==
    IF n > Len(TypeOrder) THEN << >>
    ELSE LET deps == TYPE_DEPENDENCIES(TypeOrder[n])
         IN IF x > Len(deps) THEN AncestorDepsFrom(t, n + 1, 1)
            ELSE (IF deps[x][1] = t THEN << <<TypeOrder[n], deps[x][2]>> >> ELSE << >>)
                 \o AncestorDepsFrom(t, n, x + 1)

AncestorDeps(t) == AncestorDepsFrom(t, 1, 1)

\* api.deserialize_item(self): the mapping saved for the object. Its
\* "inmemory" entry is True.
ItemDictHas(i, attr) == attr = "parent" \/ attr \in DOMAIN store[i].ref

ItemDictAttr(i, attr) ==
    IF attr = "parent" THEN store[i].parent ELSE store[i].ref[attr]

\* The objects as a deserialize call finds and leaves them, with the order
\* in which from_dict was applied, how the call ended and the object whose
\* from_dict was left by a raising setter.
Memory ==
    [parent |-> parent, depth |-> depth, stored |-> stored, ref |-> ref,
     inmemory |-> inmemory, order |-> << >>, st |-> "ok", failed |-> NONE]

\* self.from_dict(item_dict) at the end of deserialize: the reference
\* attributes, parent (setter), depth, the property followed (a setter that
\* stores its argument) and inmemory.
FromItemDict(i, M) ==
    LET pn == store[i].parent
        found == CollectionGet(TypeOf(i), pn)
    IN IF pn # "" /\ (pn = NameOf(i) \/ found = NONE)
       THEN [M EXCEPT !.st = "raised", !.failed = i]
       ELSE [M EXCEPT !.ref[i] = store[i].ref,
                      !.parent[i] = pn,
                      !.depth[i] = store[i].depth,
                      !.stored[i] = store[i].val,
                      !.inmemory[i] = TRUE,
                      !.order = Append(@, i)]

\* deserialize; fuel is the recursion depth left (RecursionError at 0).
RECURSIVE deserialize(_, _, _)
RECURSIVE DeserializeAncestors(_, _, _, _, _)

\* A deserialize_ancestor that loads nothing, as in BaseItem.deserialize.
deserialize_ancestor_none(t, nm, M, fuel) == M

\* deserialize_ancestor(ancestor_item_type, ancestor_name)
deserialize_ancestor(t, nm, M, fuel) ==
    IF nm \in {"", VALUE_INHERITED} THEN M
    ELSE LET ancestor == CollectionGet(t, nm)
         IN IF ancestor # NONE /\ ~M.inmemory[ancestor]
            THEN deserialize(ancestor, M, fuel)
            ELSE M

DeserializeAncestors(i, deps, n, M, fuel) ==
    IF n > Len(deps) \/ M.st # "ok" THEN M
    ELSE IF ~ItemDictHas(i, deps[n][2])
    THEN DeserializeAncestors(i, deps, n + 1, M, fuel)
    ELSE DeserializeAncestors(i, deps, n + 1,
             deserialize_ancestor(deps[n][1], ItemDictAttr(i, deps[n][2]), M, fuel),
             fuel)

deserialize(i, M, fuel) ==
    IF fuel = 0 THEN [M EXCEPT !.st = "diverges"]
    ELSE LET M1 == DeserializeAncestors(i, AncestorDeps(TypeOf(i)), 1, M, fuel - 1)
         IN IF M1.st # "ok" THEN M1 ELSE FromItemDict(i, M1)

\* The record of a deserialize call.
DeserializeCall(i, M) ==
    [op |-> "deserialize", item |-> i, st |-> M.st, order |-> M.order]

\* E.deserialize(), called on an object of the collection. When the call
\* ends with an exception, the objects from_dict was applied to before stay
\* as it left them.
Deserialize(i) ==
    /\ i \in indexed
    /\ \E M \in {deserialize(i, Memory, Cardinality(Items) + 1)} :
          /\ last' = DeserializeCall(i, M)
          /\ parent' = M.parent
          /\ depth' = M.depth
          /\ stored' = M.stored
          /\ ref' = M.ref
          /\ inmemory' = M.inmemory
          /\ cache' = [o \in Items |->
                         IF o \in SeqToSet(M.order)
                         THEN from_dict_clean(cache, o, TRUE)[o]
                         ELSE cache[o]]
          /\ has_initialized' = [o \in Items |-> has_initialized[o] /\ o # M.failed]
    /\ UNCHANGED <<live, listing, name, uid, prop, settings, cache_enabled,
                   threads, export, store>>

\* The collection saves the object: its attributes go to the store.
Save(i) ==
    /\ i \in indexed
    /\ inmemory[i]
    /\ store' = [store EXCEPT ![i] = Saved(parent[i], depth[i], ref[i], stored[i])]
    /\ last' = Quiet
    /\ UNCHANGED <<live, listing, name, uid, inmemory, parent, depth, ref, prop,
                   stored, settings, cache_enabled, cache, threads, export, has_initialized>>

\* What the constructor leaves of the reference attributes.
NoRef(i) == [a \in DOMAIN ref[i] |-> ""]

\* A start with lazy loading: every object of the collections is built anew
\* from its name alone.
Restart ==
    /\ \E o \in indexed : inmemory[o]
    /\ inmemory' = [o \in Items |-> IF o \in indexed THEN FALSE ELSE inmemory[o]]
    /\ parent' = [o \in Items |-> IF o \in indexed THEN "" ELSE parent[o]]
    /\ depth' = [o \in Items |-> IF o \in indexed THEN 0 ELSE depth[o]]
    /\ stored' = [o \in Items |-> IF o \in indexed THEN InitStored(prop) ELSE stored[o]]
    /\ ref' = [o \in Items |-> IF o \in indexed THEN NoRef(o) ELSE ref[o]]
    /\ cache' = [o \in Items |->
                   IF o \in indexed THEN [raw |-> EmptySlot, res |-> EmptySlot]
                   ELSE cache[o]]
    /\ last' = Quiet
    /\ UNCHANGED <<live, listing, name, uid, prop, settings, cache_enabled,
                   threads, export, store, has_initialized>>

\* The setters, called while every object is loaded.
AllLoaded == \A o \in live : inmemory[o]

\* uid (setter), statement by statement, for a thread th.
\* The test outside the lock and the lower-cased name.
UidCall(th, i, u) ==
    /\ i \in live
    /\ threads.t[th].pc = "idle"
    /\ threads' = [threads EXCEPT !.t[th] =
                     [pc |-> IF uid[i] # u /\ TypeOf(i) # "baseitem"
                             THEN "lock" ELSE "assign",
                      item |-> i, u |-> u, key |-> Lower(NameOf(i))]]
    /\ last' = Quiet
    /\ UNCHANGED <<live, listing, name, uid, inmemory, parent, depth, ref, prop,
                   stored, settings, cache_enabled, cache, export, store, has_initialized>>

\* with collection.lock: the thread waits until the lock is free.
UidAcquire(th) ==
    /\ threads.t[th].pc = "lock"
    /\ threads.lock = NONE
    /\ threads' = [threads EXCEPT !.lock = th, !.t[th].pc = "get"]
    /\ last' = Quiet
    /\ UNCHANGED <<live, listing, name, uid, inmemory, parent, depth, ref, prop,
                   stored, settings, cache_enabled, cache, export, store, has_initialized>>

\* collection.get(name): found, the thread goes on under the lock; not
\* found, it leaves the with block for the assignment after it.
UidGet(th) ==
    /\ threads.t[th].pc = "get"
    /\ LET me == threads.t[th]
       IN threads' = IF CollectionGet(TypeOf(me.item), me.key) # NONE
                     THEN [threads EXCEPT !.t[th].pc = "pop"]
                     ELSE [threads EXCEPT !.lock = NONE, !.t[th].pc = "assign"]
    /\ last' = Quiet
    /\ UNCHANGED <<live, listing, name, uid, inmemory, parent, depth, ref, prop,
                   stored, settings, cache_enabled, cache, export, store, has_initialized>>

\* collection.listing.pop(name)
UidPop(th) ==
    /\ threads.t[th].pc = "pop"
    /\ LET me == threads.t[th]
       IN listing' = ListingPop(listing, TypeOf(me.item), me.key)
    /\ threads' = [threads EXCEPT !.t[th].pc = "write"]
    /\ last' = Quiet
    /\ UNCHANGED <<live, name, uid, inmemory, parent, depth, ref, prop,
                   stored, settings, cache_enabled, cache, export, store, has_initialized>>

\* self._uid = uid, inside the with block
UidWrite(th) ==
    /\ threads.t[th].pc = "write"
    /\ LET me == threads.t[th]
       IN /\ uid' = [uid EXCEPT ![me.item] = me.u]
          /\ cache' = setattr_clean(cache, me.item, "uid").c
    /\ threads' = [threads EXCEPT !.t[th].pc = "insert"]
    /\ last' = Quiet
    /\ UNCHANGED <<live, listing, name, inmemory, parent, depth, ref, prop,
                   stored, settings, cache_enabled, export, store, has_initialized>>

\* collection.listing[name] = self and the return, which releases the lock;
\* the entry is hashed under the uid the object has at this moment.
UidInsert(th) ==
    /\ threads.t[th].pc = "insert"
    /\ LET me == threads.t[th]
       IN listing' = ListingPut(listing, TypeOf(me.item), me.key, me.item,
                               uid[me.item])
    /\ threads' = [threads EXCEPT !.lock = NONE, !.t[th] = Idle]
    /\ last' = Quiet
    /\ UNCHANGED <<live, name, uid, inmemory, parent, depth, ref, prop,
                   stored, settings, cache_enabled, cache, export, store, has_initialized>>

\* self._uid = uid after the with block, without the lock
UidAssign(th) ==
    /\ threads.t[th].pc = "assign"
    /\ LET me == threads.t[th]
       IN /\ uid' = [uid EXCEPT ![me.item] = me.u]
          /\ cache' = setattr_clean(cache, me.item, "uid").c
    /\ threads' = [threads EXCEPT !.t[th] = Idle]
    /\ last' = Quiet
    /\ UNCHANGED <<live, listing, name, inmemory, parent, depth, ref, prop,
                   stored, settings, cache_enabled, export, store, has_initialized>>

\* A property setter and to_dict, statement by statement, for a thread th.
\* setattr(item, prop, v): the call is made.
SetAttrCall(th, i, v) ==
    /\ i \in live
    /\ threads.t[th].pc = "idle"
    /\ threads' = [threads EXCEPT !.t[th] =
                     [pc |-> "clean", item |-> i, v |-> v, resolved |-> FALSE,
                      d |-> EmptySlot.d]]
    /\ last' = Quiet
    /\ UNCHANGED <<live, listing, name, uid, inmemory, parent, depth, ref, prop,
                   stored, settings, cache_enabled, cache, export, store, has_initialized>>

\* __setattr__: self.clean_cache(name)
SetAttrClean(th) ==
    /\ threads.t[th].pc = "clean"
    /\ cache' = setattr_clean(cache, threads.t[th].item, prop).c
    /\ threads' = [threads EXCEPT !.t[th].pc = "assign_attr"]
    /\ last' = Quiet
    /\ UNCHANGED <<live, listing, name, uid, inmemory, parent, depth, ref, prop,
                   stored, settings, cache_enabled, export, store, has_initialized>>

\* __setattr__: super().__setattr__(name, value)
SetAttrAssign(th) ==
    /\ threads.t[th].pc = "assign_attr"
    /\ stored' = [stored EXCEPT ![threads.t[th].item] = threads.t[th].v]
    /\ threads' = [threads EXCEPT !.t[th] = Idle]
    /\ last' = Quiet
    /\ UNCHANGED <<live, listing, name, uid, inmemory, parent, depth, ref, prop,
                   settings, cache_enabled, cache, export, store, has_initialized>>

\* to_dict(resolved): the call is made on a loaded object.
ToDictCall(th, i, resolved) ==
    /\ i \in live
    /\ inmemory[i]
    /\ threads.t[th].pc = "idle"
    /\ threads' = [threads EXCEPT !.t[th] =
                     [pc |-> "cached", item |-> i, v |-> Inherit,
                      resolved |-> resolved, d |-> EmptySlot.d]]
    /\ last' = Quiet
    /\ UNCHANGED <<live, listing, name, uid, inmemory, parent, depth, ref, prop,
                   stored, settings, cache_enabled, cache, export, store, has_initialized>>

\* cached_result = self.cache.get_dict_cache(resolved): a dict found there
\* is returned.
ToDictCached(th) ==
    /\ threads.t[th].pc = "cached"
    /\ LET me == threads.t[th]
       IN threads' = IF cache[me.item][SlotName(me.resolved)].full
                     THEN [threads EXCEPT !.t[th] = Idle]
                     ELSE [threads EXCEPT !.t[th].pc = "build"]
    /\ last' = Quiet
    /\ UNCHANGED <<live, listing, name, uid, inmemory, parent, depth, ref, prop,
                   stored, settings, cache_enabled, cache, export, store, has_initialized>>

\* The loop over self.__dict__ that builds value; a getter that raises ends
\* the call.
ToDictBuild(th) ==
    /\ threads.t[th].pc = "build"
    /\ LET me == threads.t[th]
       IN \E r \in {ComputeToDict(me.item, me.resolved)} :
             threads' = IF r.st = "ok"
                        THEN [threads EXCEPT !.t[th].pc = "put", !.t[th].d = r.d]
                        ELSE [threads EXCEPT !.t[th] = Idle]
    /\ last' = Quiet
    /\ UNCHANGED <<live, listing, name, uid, inmemory, parent, depth, ref, prop,
                   stored, settings, cache_enabled, cache, export, store, has_initialized>>

\* self.cache.set_dict_cache(value, resolved) and the return
ToDictPut(th) ==
    /\ threads.t[th].pc = "put"
    /\ LET me == threads.t[th]
       IN cache' = set_dict_cache(cache, me.item, FullSlot(me.d), me.resolved)
    /\ threads' = [threads EXCEPT !.t[th] = Idle]
    /\ last' = Quiet
    /\ UNCHANGED <<live, listing, name, uid, inmemory, parent, depth, ref, prop,
                   stored, settings, cache_enabled, export, store, has_initialized>>

NameInputs == {"p1", "p2", "P2", "p 2"}
UidInputs == {"x"}

ParentInputs == {""} \cup {NameOf(o) : o \in live}

\* ------------------------------------------------------------- find_match

\* Python's None as an expected value.
NULL == "<null>"

\* The values of the dict find_match searches: strings and integers.
StrVal(x) == [t |-> "str", s |-> x, n |-> 0]
IntVal(x) == [t |-> "int", s |-> "", n |-> x]

\* The part of a raw to_dict() result that find_match is asked about here.
MatchData(i, d) ==
    [name |-> StrVal(name[i]), parent |-> StrVal(d.parent), depth |-> IntVal(d.depth)]

\* value.startswith("~") and value[1:], on the expected values used here.
StartsWithTilde(v) == v \in {"~p1"}

StripTilde(v) == IF v = "~p1" THEN "p1" ELSE v

\* "?" in s or "*" in s or "[" in s, and fnmatch.fnmatch(obj, pattern), on
\* the patterns used here.
HasWildcard(pat) == pat \in {"p?", "*"}

fnmatch(obj, pat) ==
    CASE pat = "*" -> TRUE
      [] pat = "p?" -> obj \in {"p1", "p2", "p3"}
      [] OTHER -> obj = pat

\* _find_compare(from_search, from_obj) for a string searched for: "true",
\* "false" or "TypeError".
find_compare(from_search, from_obj) ==
    IF from_obj.t = "str"
    THEN IF ~HasWildcard(Lower(from_search))
         THEN (IF Lower(from_obj.s) = Lower(from_search) THEN "true" ELSE "false")
         ELSE (IF fnmatch(Lower(from_obj.s), Lower(from_search)) THEN "true" ELSE "false")
    ELSE "TypeError"

\* find_match_single_key(data, key, value, no_errors): "true", "false", or
\* the exception it ends with.
find_match_single_key(data, key, value, no_errors) ==
    IF key \notin DOMAIN data /\ ~no_errors THEN "false"
    ELSE IF value = NULL THEN "true"
    ELSE IF key \notin DOMAIN data THEN "KeyError"
    ELSE find_compare(value, data[key])

\* The outcome of one criterion inside the loop of find_match.
CriterionResult(data, c, no_errors) ==
    LET r == IF c[2] # NULL /\ StartsWithTilde(c[2])
             THEN find_match_single_key(data, c[1], StripTilde(c[2]), no_errors)
             ELSE find_match_single_key(data, c[1], c[2], no_errors)
    IN IF c[2] # NULL /\ StartsWithTilde(c[2])
       THEN (CASE r = "true" -> "false" [] r = "false" -> "true" [] OTHER -> r)
       ELSE r

\* A find_match that returns True as soon as one criterion matches.
RECURSIVE FindMatchAnyFrom(_, _, _, _)
FindMatchAnyFrom(data, crit, n, no_errors) ==
    IF n > Len(crit) THEN (IF crit = << >> THEN "true" ELSE "false")
    ELSE LET res == CriterionResult(data, crit[n], no_errors)
         IN IF res = "false" THEN FindMatchAnyFrom(data, crit, n + 1, no_errors)
            ELSE res

find_match_any(data, crit, no_errors) == FindMatchAnyFrom(data, crit, 1, no_errors)

\* The loop of find_match over kwargs.items(), from the n-th criterion on.
RECURSIVE FindMatchFrom(_, _, _, _)
FindMatchFrom(data, crit, n, no_errors) ==
    IF n > Len(crit) THEN "true"
    ELSE LET res == CriterionResult(data, crit[n], no_errors)
         IN IF res = "true" THEN FindMatchFrom(data, crit, n + 1, no_errors)
            ELSE res

\* find_match(kwargs, no_errors) on the dict to_dict() returned.
find_match(data, crit, no_errors) == FindMatchFrom(data, crit, 1, no_errors)

\* E.find_match(kwargs, no_errors): to_dict() (the cached raw dict if there
\* is one, else a new dict, which is put in the cache), then the loop.
FindMatch(i, crit, no_errors) ==
    /\ i \in live
    /\ AllLoaded
    /\ LET slot == cache[i].raw
           d == IF slot.full THEN slot.d ELSE ComputeToDict(i, FALSE).d
       IN /\ cache' = IF slot.full THEN cache
                      ELSE set_dict_cache(cache, i, FullSlot(d), FALSE)
          /\ last' = [op |-> "find_match", item |-> i, data |-> MatchData(i, d),
                      crit |-> crit, no_errors |-> no_errors,
                      result |-> find_match(MatchData(i, d), crit, no_errors)]
    /\ UNCHANGED <<live, listing, name, uid, inmemory, parent, depth, ref, prop,
                   stored, settings, cache_enabled, threads, export, store, has_initialized>>

\* E.get_conceptual_parent()
GetConceptualParent(i) ==
    /\ i \in live
    /\ last' = [op |-> "get_conceptual_parent", item |-> i,
                result |-> get_conceptual_parent(i)]
    /\ UNCHANGED <<live, listing, name, uid, inmemory, parent, depth, ref, prop,
                   stored, settings, cache, cache_enabled, threads, export, store, has_initialized>>

\* E.tree_walk()
TreeWalk(i) ==
    /\ i \in live
    /\ last' = [op |-> "tree_walk", item |-> i, result |-> tree_walk(i)]
    /\ UNCHANGED <<live, listing, name, uid, inmemory, parent, depth, ref, prop,
                   stored, settings, cache, cache_enabled, threads, export, store, has_initialized>>

\* E.grab_tree()
GrabTree(i) ==
    /\ i \in live
    /\ last' = [op |-> "grab_tree", item |-> i, result |-> grab_tree(i)]
    /\ UNCHANGED <<live, listing, name, uid, inmemory, parent, depth, ref, prop,
                   stored, settings, cache, cache_enabled, threads, export, store, has_initialized>>

\* The criteria find_match is called with: a mapping of up to two keys,
\* as the sequence of its items.
MatchKeys == {"name", "parent", "depth", "missing"}
MatchValues == {NULL, "P1", "~p1", "p?"}
Criteria1 == {<<c>> : c \in MatchKeys \X MatchValues}
MatchCriteria ==
    {<< >>} \cup Criteria1
            \cup {p[1] \o p[2] : p \in {q \in Criteria1 \X Criteria1 :
                                                q[1][1][1] # q[2][1][1]}}

\* ---------------------------------------------------------- specifications

\* Cache runs: two profiles and a system on the first of them, all stored
\* in their collections, with the setters and to_dict called in any order.
CacheItems == {"p1", "p2", "s1"}

Init ==
    /\ live = CacheItems
    /\ listing = ListingOf(CacheItems)
    /\ prop \in {"owners", "boot_files"}
    /\ settings = [n \in {SettingsName(prop)} |-> SettingsValue(prop)]
    /\ cache_enabled \in BOOLEAN
    /\ ref = [i \in Items |->
                CASE TypeOf(i) = "profile" -> [distro |-> ""]
                  [] TypeOf(i) = "system" -> [profile |-> "p1", image |-> ""]
                  [] OTHER -> [none |-> ""]]
    /\ Fresh

Next ==
    \/ \E i \in live, pname \in ParentInputs : SetParent(i, pname)
    \/ \E i \in live, v \in CacheInputs : SetAttr(i, v)
    \/ \E i \in live, resolved \in BOOLEAN : ToDict(i, resolved)

Spec == Init /\ [][Next]_vars

\* Resolution runs: a distro and two profiles, all stored; the setters are
\* called with every input and nothing is cached.
ResolveItems == {"d1", "p1", "p2"}

InitResolve ==
    /\ live = ResolveItems
    /\ listing = ListingOf(ResolveItems)
    /\ prop \in {"owners", "kernel_options", "boot_files"}
    /\ settings \in SettingsChoices(prop)
    /\ cache_enabled = TRUE
    /\ ref \in [Items -> UNION {RefChoices(i) : i \in Items}]
    /\ \A i \in Items : ref[i] \in RefChoices(i)
    /\ ref["p1"].distro = "d1"
    /\ ref["p3"].distro = ""
    /\ ref["s1"].profile = ""
    /\ Fresh

NextResolve ==
    \/ \E i \in live, pname \in ParentInputs : SetParent(i, pname)
    \/ \E i \in live, v \in SetterInputs : SetAttr(i, v)

SpecResolve == InitResolve /\ [][NextResolve]_vars

\* Loading runs: two profiles, all stored; besides the setters and to_dict
\* the inmemory flag of the second one is switched, as the serializers do.
LoadItems == {"p1", "p2"}
LoadFlagged == {"p2"}

InitLoad ==
    /\ live = LoadItems
    /\ listing = ListingOf(LoadItems)
    /\ prop = "owners"
    /\ settings = [n \in {SettingsName(prop)} |-> SettingsValue(prop)]
    /\ cache_enabled \in BOOLEAN
    /\ ref = [i \in Items |->
                CASE TypeOf(i) = "profile" -> [distro |-> ""]
                  [] TypeOf(i) = "system" -> [profile |-> "", image |-> ""]
                  [] OTHER -> [none |-> ""]]
    /\ Fresh

NextLoad ==
    \/ \E i \in live, pname \in ParentInputs : SetParent(i, pname)
    \/ \E i \in live, v \in CacheInputs : SetAttr(i, v)
    \/ \E i \in live, resolved \in BOOLEAN : ToDict(i, resolved)
    \/ \E i \in LoadFlagged, b \in BOOLEAN : SetInmemory(i, b)

SpecLoad == InitLoad /\ [][NextLoad]_vars

\* Store runs: a distro and two profiles, all stored and saved; parents and
\* owners are set while everything is loaded, objects are saved, the
\* program starts again with name-only objects, and these are deserialized.
StoreItems == {"d1", "p1", "p2"}

InitStore ==
    /\ live = StoreItems
    /\ listing = ListingOf(StoreItems)
    /\ prop = "owners"
    /\ settings = [n \in {SettingsName(prop)} |-> SettingsValue(prop)]
    /\ cache_enabled = TRUE
    /\ ref \in {[i \in Items |->
                   CASE i = "p1" -> [distro |-> n]
                     [] TypeOf(i) = "profile" -> [distro |-> ""]
                     [] TypeOf(i) = "system" -> [profile |-> "", image |-> ""]
                     [] OTHER -> [none |-> ""]] : n \in {"", "d1"}}
    /\ Fresh

NextStore ==
    \/ \E i \in {"p1", "p2"}, pname \in {"p1", "p2"} : AllLoaded /\ SetParent(i, pname)
    \/ \E v \in {Inherit, Scalar("a")} : AllLoaded /\ SetAttr("p1", v)
    \/ \E i \in live : Save(i)
    \/ Restart
    \/ \E i \in live : Deserialize(i)

SpecStore == InitStore /\ [][NextStore]_vars

\* Enum runs: three stored profiles and an enum-valued property of theirs;
\* parents and values are set in any order.
EnumItems == {"p1", "p2", "p3"}

InitEnum ==
    /\ live = EnumItems
    /\ listing = ListingOf(EnumItems)
    /\ prop = "virt_type"
    /\ settings \in SettingsChoices(prop)
    /\ cache_enabled = TRUE
    /\ ref = [i \in Items |->
                CASE TypeOf(i) = "profile" -> [distro |-> ""]
                  [] TypeOf(i) = "system" -> [profile |-> "", image |-> ""]
                  [] OTHER -> [none |-> ""]]
    /\ Fresh

NextEnum ==
    \/ \E i \in live, pname \in {"", "p1", "p2"} : SetParent(i, pname)
    \/ \E i \in live, v \in SetterInputs : SetAttr(i, v)

SpecEnum == InitEnum /\ [][NextEnum]_vars

\* Dedup runs: a distro, a profile on it and a second profile, all stored;
\* the profiles are given parents and all three are given kernel_options,
\* in any order.
DedupInputs == {Dict(m) : m \in Mappings}

InitDedup ==
    /\ live = ResolveItems
    /\ listing = ListingOf(ResolveItems)
    /\ prop = "kernel_options"
    /\ settings \in SettingsChoices(prop)
    /\ cache_enabled = TRUE
    /\ ref = [i \in Items |->
                CASE i = "p1" -> [distro |-> "d1"]
                  [] TypeOf(i) = "profile" -> [distro |-> ""]
                  [] TypeOf(i) = "system" -> [profile |-> "", image |-> ""]
                  [] OTHER -> [none |-> ""]]
    /\ Fresh

NextDedup ==
    \/ \E i \in {"p1", "p2"}, pname \in {"", "p1", "p2"} : SetParent(i, pname)
    \/ \E i \in live, v \in DedupInputs : SetAttr(i, v)

SpecDedup == InitDedup /\ [][NextDedup]_vars

\* Settings runs: two stored profiles and a scalar property; the settings
\* have any of the attributes a resolution could look for, each with a
\* value of its own; parents and values are set and the property is
\* resolved, in any order.
SettingsItems == {"p1", "p2"}

SettingsKeys(p) ==
    {p, SettingsName(p), DefaultName(SettingsName(p)), "proxy", DefaultName("proxy")}

InitSettings ==
    /\ live = SettingsItems
    /\ listing = ListingOf(SettingsItems)
    /\ prop \in ScalarProps
    /\ settings \in {[n \in S |-> Scalar(n)] : S \in SUBSET SettingsKeys(prop)}
    /\ cache_enabled = TRUE
    /\ ref = [i \in Items |->
                CASE TypeOf(i) = "profile" -> [distro |-> ""]
                  [] TypeOf(i) = "system" -> [profile |-> "", image |-> ""]
                  [] OTHER -> [none |-> ""]]
    /\ Fresh

NextSettings ==
    \/ \E pname \in {"", "p1"} : SetParent("p2", pname)
    \/ \E i \in live, v \in {Inherit, Scalar("a")} : SetAttr(i, v)
    \/ \E i \in live : BaseResolve(i)

SpecSettings == InitSettings /\ [][NextSettings]_vars

\* Match runs: two stored profiles; the second is given a parent and is
\* searched with find_match, in any order.
MatchItems == {"p1", "p2"}

InitMatch ==
    /\ live = MatchItems
    /\ listing = ListingOf(MatchItems)
    /\ prop = "owners"
    /\ settings = [n \in {SettingsName(prop)} |-> SettingsValue(prop)]
    /\ cache_enabled = TRUE
    /\ ref = [i \in Items |->
                CASE TypeOf(i) = "profile" -> [distro |-> ""]
                  [] TypeOf(i) = "system" -> [profile |-> "", image |-> ""]
                  [] OTHER -> [none |-> ""]]
    /\ Fresh

NextMatch ==
    \/ \E pname \in {"", "p1"} : SetParent("p2", pname)
    \/ \E crit \in MatchCriteria, no_errors \in BOOLEAN :
          FindMatch("p2", crit, no_errors)

SpecMatch == InitMatch /\ [][NextMatch]_vars

\* Climbing runs: a distro, two profiles, an image and a system, the image
\* stored or not, the others stored; the profiles name the distro or
\* nothing, the system an image, a profile, both or neither; the profiles
\* are given parents and the parents above any object are asked for.
ClimbItems == {"d1", "p1", "p2", "s1", "i1"}

InitClimb ==
    /\ live = ClimbItems
    /\ listing \in {ListingOf(ClimbItems), ListingOf(ClimbItems \ {"i1"})}
    /\ prop = "owners"
    /\ settings = [n \in {SettingsName(prop)} |-> SettingsValue(prop)]
    /\ cache_enabled = TRUE
    /\ ref \in {[i \in Items |->
                   CASE i = "p1" -> [distro |-> a]
                     [] i = "p2" -> [distro |-> b]
                     [] i = "s1" -> [profile |-> c, image |-> d]
                     [] TypeOf(i) = "profile" -> [distro |-> ""]
                     [] OTHER -> [none |-> ""]]
                 : a \in {"", "d1"}, b \in {"", "d1"}, c \in {"", "p2"},
                   d \in {"", "i1"}}
    /\ Fresh

NextClimb ==
    \/ \E i \in {"p1", "p2"}, pname \in {"", "p1", "p2"} : SetParent(i, pname)
    \/ \E i \in live : GetConceptualParent(i)
    \/ \E i \in live : GrabTree(i)

SpecClimb == InitClimb /\ [][NextClimb]_vars

\* Walking runs: four profiles, three of them stored from the start and the
\* fourth added later; three of them are given parents in any order and
\* tree_walk is called on any of them.
WalkItems == {"p1", "p2", "p3", "p4"}

InitWalk ==
    /\ live = WalkItems
    /\ listing = ListingOf({"p1", "p2", "p4"})
    /\ prop = "owners"
    /\ settings = [n \in {SettingsName(prop)} |-> SettingsValue(prop)]
    /\ cache_enabled = TRUE
    /\ ref = [i \in Items |->
                CASE TypeOf(i) = "profile" -> [distro |-> ""]
                  [] TypeOf(i) = "system" -> [profile |-> "", image |-> ""]
                  [] OTHER -> [none |-> ""]]
    /\ Fresh

NextWalk ==
    \/ Add("p3")
    \/ \E i \in {"p2", "p3", "p4"}, pname \in {"", "p1", "p2", "p3", "p4"} :
          SetParent(i, pname)
    \/ \E i \in live : TreeWalk(i)

SpecWalk == InitWalk /\ [][NextWalk]_vars

\* Frame runs: a profile that is added to its collection during the run, a
\* second profile that can be put under it and a system on it; owners of
\* the first profile is set, to_dict is called on all three, the first
\* profile is unloaded and loaded, and caching is switched off and on.
FrameItems == {"p1", "p2", "s1"}

InitFrame ==
    /\ live = FrameItems
    /\ listing = ListingOf({"p2", "s1"})
    /\ prop = "owners"
    /\ settings = [n \in {SettingsName(prop)} |-> SettingsValue(prop)]
    /\ cache_enabled = TRUE
    /\ ref = [i \in Items |->
                CASE TypeOf(i) = "profile" -> [distro |-> ""]
                  [] TypeOf(i) = "system" -> [profile |-> "p1", image |-> ""]
                  [] OTHER -> [none |-> ""]]
    /\ Fresh

NextFrame ==
    \/ Add("p1")
    \/ \E pname \in {"", "p1"} : SetParent("p2", pname)
    \/ \E v \in CacheInputs : SetAttr("p1", v)
    \/ \E i \in live, resolved \in BOOLEAN : ToDict(i, resolved)
    \/ \E b \in BOOLEAN : SetInmemory("p1", b)
    \/ \E b \in BOOLEAN : SetCacheEnabled(b)

SpecFrame == InitFrame /\ [][NextFrame]_vars

\* Raising runs: two stored profiles; the parent setter is called with no
\* name, their names and a name nobody has, the name setter of the second
\* with a name that holds a space, the owners setter with a list and with a
\* number, and to_dict on both.
RaiseItems == {"p1", "p2"}

InitRaise ==
    /\ live = RaiseItems
    /\ listing = ListingOf(RaiseItems)
    /\ prop = "owners"
    /\ settings = [n \in {SettingsName(prop)} |-> SettingsValue(prop)]
    /\ cache_enabled = TRUE
    /\ ref = [i \in Items |->
                CASE TypeOf(i) = "profile" -> [distro |-> ""]
                  [] TypeOf(i) = "system" -> [profile |-> "", image |-> ""]
                  [] OTHER -> [none |-> ""]]
    /\ Fresh

NextRaise ==
    \/ \E i \in live, pname \in {"", "p1", "p2", "p9"} : SetParent(i, pname)
    \/ SetName("p2", "p 2")
    \/ \E i \in live, v \in {Scalar("a"), Number} : SetAttr(i, v)
    \/ \E i \in live, resolved \in BOOLEAN : ToDict(i, resolved)

SpecRaise == InitRaise /\ [][NextRaise]_vars

\* Initialized-flag runs: two stored profiles; the second is exported, given
\* kernel_options and given mappings with from_dict: one whose parent
\* setter raises after kernel_options was set, one that is applied whole
\* and one with a key that has no attribute.
InitializedItems == {"p1", "p3"}

InitializedInputs ==
    {Mapping(<<"kernel_options", "parent">>, "", "p3", 0, Dict({<<"k", "1">>}), TRUE),
     Mapping(<<"kernel_options", "parent">>, "", "p1", 0, Dict({<<"k", "2">>}), TRUE),
     Mapping(<<"kernel_options", "foo">>, "", "", 0, Dict({}), TRUE)}

InitInitialized ==
    /\ live = InitializedItems
    /\ listing = ListingOf(InitializedItems)
    /\ prop = "kernel_options"
    /\ settings = [n \in {SettingsName(prop)} |-> SettingsValue(prop)]
    /\ cache_enabled = TRUE
    /\ ref = [i \in Items |->
                CASE TypeOf(i) = "profile" -> [distro |-> ""]
                  [] TypeOf(i) = "system" -> [profile |-> "", image |-> ""]
                  [] OTHER -> [none |-> ""]]
    /\ Fresh

NextInitialized ==
    \/ \E v \in {Dict({}), Dict({<<"k", "1">>})} : SetAttr("p3", v)
    \/ \E resolved \in BOOLEAN : ToDict("p3", resolved)
    \/ \E D \in InitializedInputs : FromDict("p3", D)

SpecInitialized == InitInitialized /\ [][NextInitialized]_vars

\* Race runs: one stored profile; one thread calls the owners setter on it
\* and the other to_dict, their statements interleaved in every order.
RaceItems == {"p1"}

InitRace ==
    /\ live = RaceItems
    /\ listing = ListingOf(RaceItems)
    /\ prop = "owners"
    /\ settings = [n \in {SettingsName(prop)} |-> SettingsValue(prop)]
    /\ cache_enabled = TRUE
    /\ ref = [i \in Items |->
                CASE TypeOf(i) = "profile" -> [distro |-> ""]
                  [] TypeOf(i) = "system" -> [profile |-> "", image |-> ""]
                  [] OTHER -> [none |-> ""]]
    /\ Fresh

NextRace ==
    \/ \E v \in {Scalar("a"), Scalar("b")} : SetAttrCall("t1", "p1", v)
    \/ \E th \in Threads : SetAttrClean(th)
    \/ \E th \in Threads : SetAttrAssign(th)
    \/ \E resolved \in BOOLEAN : ToDictCall("t2", "p1", resolved)
    \/ \E th \in Threads : ToDictCached(th)
    \/ \E th \in Threads : ToDictBuild(th)
    \/ \E th \in Threads : ToDictPut(th)

SpecRace == InitRace /\ [][NextRace]_vars

\* Index runs: two profiles, the first one stored; they are renamed, given
\* parents and uids, and added, in any order.
IndexItems == {"p1", "p2"}

InitIndex ==
    /\ live = IndexItems
    /\ listing = ListingOf({"p1"})
    /\ prop = "owners"
    /\ settings = [n \in {SettingsName(prop)} |-> SettingsValue(prop)]
    /\ cache_enabled = TRUE
    /\ ref = [i \in Items |->
                CASE TypeOf(i) = "profile" -> [distro |-> ""]
                  [] TypeOf(i) = "system" -> [profile |-> "", image |-> ""]
                  [] OTHER -> [none |-> ""]]
    /\ Fresh

NextIndex ==
    \/ \E i \in live : Add(i)
    \/ \E i \in live, nm \in NameInputs : SetName(i, nm)
    \/ \E i \in live, pname \in ParentInputs : SetParent(i, pname)
    \/ \E i \in live, u \in UidInputs : SetUid(i, u)

SpecIndex == InitIndex /\ [][NextIndex]_vars

\* Lock runs: two stored profiles; two threads call the uid setter on them,
\* their statements interleaved in every order.
LockItems == {"p1", "p2"}
LockUidInputs == {"x", "y"}

InitLock ==
    /\ live = LockItems
    /\ listing = ListingOf(LockItems)
    /\ prop = "owners"
    /\ settings = [n \in {SettingsName(prop)} |-> SettingsValue(prop)]
    /\ cache_enabled = TRUE
    /\ ref = [i \in Items |->
                CASE TypeOf(i) = "profile" -> [distro |-> ""]
                  [] TypeOf(i) = "system" -> [profile |-> "", image |-> ""]
                  [] OTHER -> [none |-> ""]]
    /\ Fresh

NextLock ==
    \/ \E th \in Threads, i \in live, u \in LockUidInputs : UidCall(th, i, u)
    \/ \E th \in Threads : UidAcquire(th)
    \/ \E th \in Threads : UidGet(th)
    \/ \E th \in Threads : UidPop(th)
    \/ \E th \in Threads : UidWrite(th)
    \/ \E th \in Threads : UidInsert(th)
    \/ \E th \in Threads : UidAssign(th)

SpecLock == InitLock /\ [][NextLock]_vars

\* Export runs: one stored profile; its autoinstall_meta and template_files
\* are set, it is exported with to_dict and serialize, and the caller writes
\* into the dicts it gets.
ExportItems == {"p1"}

InitExportRun ==
    /\ live = ExportItems
    /\ listing = ListingOf(ExportItems)
    /\ prop = "autoinstall_meta"
    /\ settings = [n \in {SettingsName(prop)} |-> SettingsValue(prop)]
    /\ cache_enabled = TRUE
    /\ ref = [i \in Items |->
                CASE TypeOf(i) = "profile" -> [distro |-> ""]
                  [] TypeOf(i) = "system" -> [profile |-> "", image |-> ""]
                  [] OTHER -> [none |-> ""]]
    /\ Fresh

NextExport ==
    \/ \E i \in live, resolved \in BOOLEAN : ToDictHanded(i, resolved)
    \/ \E i \in live : Serialize(i)
    \/ \E i \in live, v \in SetterInputs : SetAttr(i, v)
    \/ \E i \in live, m \in Mappings : SetTemplateFiles(i, m)
    \/ \E e \in Keys \X Vals : MutateHanded(e)

SpecExport == InitExportRun /\ [][NextExport]_vars

\* Sentinel runs: a stored profile and a stored child profile; the owners of
\* both and the comment of the child are set, the child is moved under the
\* profile and back, and it is exported with either flag.
SentinelItems == {"p1", "p2"}

InitSentinel ==
    /\ live = SentinelItems
    /\ listing = ListingOf(SentinelItems)
    /\ prop = "owners"
    /\ settings = [n \in {SettingsName(prop)} |-> SettingsValue(prop)]
    /\ cache_enabled = TRUE
    /\ ref = [i \in Items |->
                CASE TypeOf(i) = "profile" -> [distro |-> ""]
                  [] TypeOf(i) = "system" -> [profile |-> "", image |-> ""]
                  [] OTHER -> [none |-> ""]]
    /\ Fresh

NextSentinel ==
    \/ \E resolved \in BOOLEAN : ToDictHanded("p2", resolved)
    \/ \E i \in live, v \in SetterInputs : SetAttr(i, v)
    \/ \E c \in CommentInputs : SetComment("p2", c)
    \/ \E pname \in {"", "p1"} : SetParent("p2", pname)

SpecSentinel == InitSentinel /\ [][NextSentinel]_vars

\* Dict runs: a stored profile and a second profile outside the collection;
\* kernel_options of the stored one is set, the second profile is
\* constructed anew, exported and given mappings with from_dict.
DictItems == {"p1", "p3"}

InitDict ==
    /\ live = DictItems
    /\ listing = ListingOf({"p1"})
    /\ prop = "kernel_options"
    /\ settings = [n \in {SettingsName(prop)} |-> SettingsValue(prop)]
    /\ cache_enabled = TRUE
    /\ ref = [i \in Items |->
                CASE TypeOf(i) = "profile" -> [distro |-> ""]
                  [] TypeOf(i) = "system" -> [profile |-> "", image |-> ""]
                  [] OTHER -> [none |-> ""]]
    /\ Fresh

NextDict ==
    \/ \E v \in {Dict({}), Dict({<<"k", "1">>})} : SetAttr("p1", v)
    \/ \E resolved \in BOOLEAN : ToDictHanded("p3", resolved)
    \/ \E D \in FromDictInputs : FromDict("p3", D)
    \/ Construct("p3")

SpecDict == InitDict /\ [][NextDict]_vars

\* Round-trip runs: a stored profile, a stored child profile and a third
\* profile outside the collection; kernel_options of the stored ones are
\* set, the child is moved under the profile and back and exported, and the
\* third profile is constructed anew and given the exported dict.
RoundTripItems == {"p1", "p2", "p3"}

InitRoundTrip ==
    /\ live = RoundTripItems
    /\ listing = ListingOf({"p1", "p2"})
    /\ prop = "kernel_options"
    /\ settings = [n \in {SettingsName(prop)} |-> SettingsValue(prop)]
    /\ cache_enabled = TRUE
    /\ ref = [i \in Items |->
                CASE TypeOf(i) = "profile" -> [distro |-> ""]
                  [] TypeOf(i) = "system" -> [profile |-> "", image |-> ""]
                  [] OTHER -> [none |-> ""]]
    /\ Fresh

NextRoundTrip ==
    \/ \E pname \in {"", "p1"} : SetParent("p2", pname)
    \/ \E i \in {"p1", "p2"}, v \in {Dict({}), Dict({<<"k", "1">>})} : SetAttr(i, v)
    \/ ToDictHanded("p2", FALSE)
    \/ FromDictHanded("p3")
    \/ Construct("p3")

SpecRoundTrip == InitRoundTrip /\ [][NextRoundTrip]_vars

\* Topology runs: every object is constructed, none is stored yet; the
\* attribute values stay as constructed.
TreeItems == {"d1", "p1", "p2", "s1"}

InitTree ==
    /\ live = TreeItems
    /\ listing = EmptyListing
    /\ prop = "owners"
    /\ settings = [n \in {SettingsName(prop)} |-> SettingsValue(prop)]
    /\ cache_enabled = TRUE
    /\ ref \in [Items -> UNION {RefChoices(i) : i \in Items}]
    /\ \A i \in Items : ref[i] \in RefChoices(i)
    /\ ref["p3"].distro = ""
    /\ Fresh

NextTree ==
    \/ \E i \in live : Add(i)
    \/ \E i \in live, pname \in ParentInputs : SetParent(i, pname)

SpecTree == InitTree /\ [][NextTree]_vars

\* ------------------------------------------------------------- properties

\* The parent relation is acyclic: the climb from every object ends.
Acyclic == \A i \in live : RootOf(i) # DIVERGES

\* One step up the inheritance chain: the direct parent if there is one,
\* else the conceptual parent named by the object's own reference attributes.
Up(i) ==
    IF ParentObj(i) # NONE THEN ParentObj(i)
    ELSE FirstResolvable(i, LOGICAL_INHERITANCE(TypeOf(i)), 1)

\* What the settings give for a property nobody above defines.
SettingsFallback(p) ==
    IF SettingsName(p) \in DOMAIN settings THEN Ok(settings[SettingsName(p)])
    ELSE IF DefaultName(SettingsName(p)) \in DOMAIN settings
    THEN Ok(settings[DefaultName(SettingsName(p))])
    ELSE Unresolved

\* The concrete value of the nearest ancestor, else the settings' value.
RECURSIVE NearestFrom(_, _, _)
NearestFrom(i, p, seen) ==
    LET u == Up(i)
    IN IF u = NONE \/ u \in seen THEN SettingsFallback(p)
       ELSE IF stored[u] # Inherit THEN Ok(stored[u])
       ELSE NearestFrom(u, p, seen \cup {u})

\* C1: for every object whose stored value of a scalar inheritable property
\* is the inherit sentinel, resolve returns the concrete value of the nearest
\* ancestor (direct parent, then conceptual parent), else the settings'
\* value, else it raises the unresolved-inheritance error.
C1_ResolveNearestAncestor ==
    prop = "owners" =>
        \A i \in live :
            stored[i] = Inherit => resolve(i, prop) = NearestFrom(i, prop, {i})

\* The same equation in the states whose parent relation is acyclic.
C1_WhenAcyclic == Acyclic => C1_ResolveNearestAncestor

\* C2: with caching enabled, every populated resolved slot equals the dict
\* to_dict(resolved=True) would compute afresh in that state.
C2_NoStaleResolvedDict ==
    cache_enabled =>
        \A i \in live :
            cache[i].res.full =>
                ComputeToDict(i, TRUE) = [st |-> "ok", d |-> cache[i].res.d]

\* A setter changed the followed attribute of the object in this step.
AttrMutated(i) == stored'[i] # stored[i]

\* C3: when an inheritable attribute is mutated on an indexed, loaded object
\* (caching enabled), the resolved slot of each of its descendants is empty
\* right after the mutation.
C3_DescendantsInvalidated ==
    [][\A i \in live :
          (AttrMutated(i) /\ cache_enabled /\ inmemory[i] /\ i \in indexed) =>
              \A d \in descendants(i).v : ~cache'[d].res.full]_vars

\* The same for the attributes the code declares inheritable.
C3_WhenDeclaredInheritable ==
    [][\A i \in live :
          (AttrMutated(i) /\ cache_enabled /\ inmemory[i] /\ i \in indexed
             /\ IsInheritableDecl(prop)) =>
              \A d \in descendants(i).v : ~cache'[d].res.full]_vars

\* A setter changed a stored attribute of the object in this step.
Mutated(i) ==
    stored'[i] # stored[i] \/ parent'[i] # parent[i] \/ depth'[i] # depth[i]

C5_ReparentInvalidatesDescendants ==
    [][\A i \in live :
          (parent'[i] # parent[i] /\ cache_enabled /\ inmemory[i] /\ i \in indexed) =>
              \A d \in descendants(i).v : ~cache'[d].res.full]_vars

\* The object's own mapping merged over the resolved mapping of its parent
\* (the settings' mapping when it has none).
RECURSIVE MergedFrom(_, _, _)
MergedFrom(i, p, seen) ==
    LET u == Up(i)
        base == IF u = NONE \/ u \in seen
                THEN IF p \in DOMAIN settings THEN settings[p].m ELSE {}
                ELSE MergedFrom(u, p, seen \cup {u})
    IN IF stored[i] = Inherit THEN base ELSE Update(base, stored[i].m)

\* C6 (in the states where the parent relation is acyclic): the resolved
\* value of an inheritable dict property is the object's own mapping merged
\* over its parent's resolved mapping, so that a key set only on the direct
\* parent of a sub-object appears in the sub-object's resolved mapping.
C6_ResolveDictMergesParent ==
    (prop \in DictProps /\ Acyclic) =>
        \A i \in live :
            resolve_dict(i, prop) = Ok(Dict(MergedFrom(i, prop, {i})))

\* The same with the conceptual parent of the root in place of the parent.
C6_MergesConceptualParent ==
    (prop \in DictProps /\ Acyclic) =>
        \A i \in live :
            LET cp == get_conceptual_parent(i)
                base == IF cp # NONE THEN resolve_dict(cp, prop).v.m
                        ELSE IF prop \in DOMAIN settings THEN settings[prop].m
                        ELSE {}
            IN resolve_dict(i, prop).v.m =
                   IF stored[i] = Inherit THEN base ELSE Update(base, stored[i].m)

\* C7: in every reachable state, descendants of E does not contain E and
\* contains every element of tree_walk of E (the result is built as a set,
\* so no object is in it twice).
C7_DescendantsShape ==
    \A e \in live :
        /\ descendants(e).ok
        /\ e \notin descendants(e).v
        /\ tree_walk(e).ok
        /\ SeqToSet(tree_walk(e).v) \subseteq descendants(e).v

\* The same in the states whose parent relation is acyclic.
C7_WhenAcyclic == Acyclic => C7_DescendantsShape

\* A dependency edge x -> y: y is a stored same-type child of x, or the
\* type-dependency table lists (type of y, attribute) under the type of x
\* and that attribute of y names x.
Edge(x, y) ==
    /\ y \in indexed
    /\ \/ TypeOf(y) = TypeOf(x) /\ parent[y] = NameOf(x)
       \/ \E n \in DOMAIN TYPE_DEPENDENCIES(TypeOf(x)) :
              /\ TypeOf(y) = TYPE_DEPENDENCIES(TypeOf(x))[n][1]
              /\ AttrOf(y, TYPE_DEPENDENCIES(TypeOf(x))[n][2]) = NameOf(x)

RECURSIVE ReachFrom(_, _)
ReachFrom(S, n) ==
    IF n = 0 THEN S
    ELSE ReachFrom(S \cup {y \in Items : \E x \in S : Edge(x, y)}, n - 1)

\* The objects reachable from e by one or more dependency edges.
Reach(e) == ReachFrom({y \in Items : Edge(e, y)}, Cardinality(Items))

\* C8: descendants of E is exactly the set of objects reachable from E by
\* one or more dependency edges.
C8_DescendantsAreReachable ==
    \A e \in live : descendants(e) = [ok |-> TRUE, v |-> Reach(e)]

\* The same in the states whose parent relation is acyclic.
C8_WhenAcyclic == Acyclic => C8_DescendantsAreReachable

\* The chain distro d1 <- profile p1 <- sub-profile p2 <- system s1.
C8_Example ==
    (/\ indexed = TreeItems
     /\ ref["p1"].distro = "d1" /\ ref["p2"].distro = ""
     /\ parent["p2"] = "p1" /\ parent["p1"] = ""
     /\ ref["s1"].profile = "p2")
    => /\ descendants("d1") = [ok |-> TRUE, v |-> {"p1", "p2", "s1"}]
       /\ descendants("s1") = [ok |-> TRUE, v |-> {}]

\* C9: after any sequence of successful parent-setter calls the parent
\* relation is acyclic: the climb from every object ends at an object
\* without a parent, and tree_walk and descendants terminate.
C9_ParentAcyclic ==
    \A i \in live :
        RootOf(i) # DIVERGES /\ tree_walk(i).ok /\ descendants(i).ok

\* C10: after any sequence of parent-setter calls, the depth of every object
\* is its parent's depth plus 1, and 0 when it has no parent.
C10_DepthFollowsParent ==
    \A i \in live :
        depth[i] = IF ParentObj(i) = NONE THEN 0 ELSE depth[ParentObj(i)] + 1

\* ---------------------------------------------------------------------
\* Identity and the index

\* __eq__ and __hash__: both read the uid only.
eq(i, j) == uid[i] = uid[j]
HashOf(u) == CASE u = "x" -> 7 [] u = "u-p1" -> 1 [] u = "u-p2" -> 2
               [] u = "u-p3" -> 3 [] u = "u-d1" -> 4 [] OTHER -> 5
hash(i) == HashOf(uid[i])

\* The object is in the listing l, in an entry hashed under u, and its uid
\* in ids is u: a lookup by hash and equality with u finds it.
Discoverable(l, ids, i, u) ==
    /\ ids[i] = u
    /\ \E k \in DOMAIN l[TypeOf(i)] : l[TypeOf(i)][k] = Entry(i, u)

\* The object is stored under the key of its current name.
KeyedByName(i) == CollectionGet(TypeOf(i), NameOf(i)) = i

\* C11: after any sequence of name-setter and parent-setter calls, no
\* object has a non-empty parent name equal to its own name.
C11_NoSelfParent ==
    \A i \in live : parent[i] # "" => parent[i] # name[i]

\* C11, parent setter alone: the step that stores a parent name never
\* stores the object's own name.
C11_ParentSetterChecks ==
    [][\A i \in live : parent'[i] # parent[i] /\ parent'[i] # ""
          => parent'[i] # name[i]]_vars

\* C12: changing the uid of an object in the index re-inserts it: the entry
\* under its name is the object, hashed under the new uid; it is found by
\* the new uid and no longer by the old one; the number of entries is the
\* same.
UidReinserted(i) ==
    LET t == TypeOf(i)
        k == Lower(name[i])
    IN /\ k \in DOMAIN listing'[t]
       /\ listing'[t][k] = Entry(i, uid'[i])
       /\ Discoverable(listing', uid', i, uid'[i])
       /\ ~Discoverable(listing', uid', i, uid[i])
       /\ \A k2 \in DOMAIN listing'[t] : listing'[t][k2] # Entry(i, uid[i])
       /\ Cardinality(DOMAIN listing'[t]) = Cardinality(DOMAIN listing[t])

C12_UidChangeReinserts ==
    [][\A i \in live : uid'[i] # uid[i] /\ i \in indexed
          => UidReinserted(i)]_vars

\* C12, for an object stored under the key of its name.
C12_WhenKeyedByName ==
    [][\A i \in live :
          (/\ uid'[i] # uid[i]
           /\ KeyedByName(i)
           /\ \A k \in DOMAIN listing[TypeOf(i)] :
                 listing[TypeOf(i)][k].item = i => k = Lower(name[i]))
          => UidReinserted(i)]_vars

\* C14: two objects are equal exactly when their uids are equal, equal
\* objects have equal hashes, and no step other than a uid change alters an
\* object's hash or which objects it is equal to.
C14_HashFollowsUid ==
    [][/\ \A i, j \in live :
            /\ eq(i, j)' <=> (uid'[i] = uid'[j])
            /\ eq(i, j)' => (hash(i)' = hash(j)')
       /\ last'.op # "set_uid"
             => \A i, j \in live :
                   /\ hash(i)' = hash(i)
                   /\ eq(i, j)' <=> eq(i, j)]_vars

C14_Witness ==
    /\ last = Call("set_name", "p2")
    /\ name["p2"] # InitName["p2"]
    /\ uid["p2"] = "x" /\ uid["p1"] = "x"
    /\ eq("p1", "p2") /\ hash("p1") = hash("p2")

\* C15: renaming an object whose old name was in the index leaves one entry
\* under the new name and none under the old one.
C15_RenameReindexes ==
    [][\A i \in live :
          LET t == TypeOf(i)
          IN (/\ name'[i] # name[i]
              /\ Lower(name'[i]) # Lower(name[i])
              /\ Lower(name[i]) \in DOMAIN listing[t]
              /\ listing[t][Lower(name[i])].item = i)
             => /\ Lower(name'[i]) \in DOMAIN listing'[t]
                /\ listing'[t][Lower(name'[i])].item = i
                /\ Lower(name[i]) \notin DOMAIN listing'[t]]_vars

\* ---------------------------------------------------------------------
\* The uid change under the collection lock

\* What a thread that has just taken the lock sees of a stored object: its
\* entry is in the listing, hashed under the uid the object carries.
EntryInPlace(i) ==
    LET t == TypeOf(i)
        k == Lower(NameOf(i))
    IN k \in DOMAIN listing[t] /\ listing[t][k] = Entry(i, uid[i])

\* C13: whenever the collection lock is free to be taken, every stored
\* object has its entry in the listing, hashed under its current uid,
\* whatever the interleaving of the concurrent uid changes.
C13_AtomicUnderLock ==
    threads.lock = NONE => \A i \in LockItems : EntryInPlace(i)

\* C13, the statements inside the with block: a step that leaves the lock
\* free and the listing out of place, coming from a state where the lock was
\* free and the listing in place, is the assignment after the with block.
C13_OnlyUnlockedWriteBreaks ==
    [][(/\ threads.lock = NONE
        /\ \A i \in LockItems : EntryInPlace(i)
        /\ threads'.lock = NONE
        /\ \E i \in LockItems : ~EntryInPlace(i)')
       => \E th \in Threads : /\ threads.t[th].pc = "assign"
                               /\ threads'.t[th].pc = "idle"]_vars

\* ---------------------------------------------------------------------
\* Exported dicts

\* The dict the last call handed out, as it is now.
HandedRest == export.rest[export.handed.item][SlotName(export.handed.resolved)]

\* C16: every to_dict call, with either flag, returns a dict that has the
\* legacy alias keys, also after a serialize call.
C16_AliasKeysKept ==
    last.op = "to_dict" => HandedRest.ks_meta

\* C16, resolved flag: the resolved dict always has the alias keys.
C16_ResolvedHasAliasKeys ==
    last.op = "to_dict" /\ export.handed.resolved => HandedRest.ks_meta

\* C17: writing into a mapping taken from a to_dict result leaves the
\* object's stored attributes as they were.
C17_ResultNotAliased ==
    [][last'.op = "mutate" => export'.tf = export.tf /\ stored' = stored]_vars

\* C17, raw flag: the mappings of a raw dict are copies.
C17_RawResultNotAliased ==
    [][last'.op = "mutate" /\ ~export.handed.resolved
         => export'.tf = export.tf /\ stored' = stored]_vars

\* The parent, depth and property part of the dict the last call handed out.
HandedDict == cache[export.handed.item][SlotName(export.handed.resolved)].d

LookedAt(D) == KeySet(remove_deprecated_dict_keys(D.order))
Unknown(D) == {k \in LookedAt(D) : ~HasAttr(k)}

\* What C19 says of a from_dict call in which no setter raises, but for the
\* cache: every matching key is applied, and the call fails exactly when
\* there are unknown keys, listing them.
AppliedAndReported(i, D) ==
    /\ "comment" \in LookedAt(D) => export'.comment[i] = D.v.comment
    /\ "inmemory" \in LookedAt(D) => inmemory'[i] = D.v.inmemory
    /\ "parent" \in LookedAt(D) => parent'[i] = D.v.parent
    /\ Unknown(D) # {} => last'.error = "KeyError" /\ last'.listed = Unknown(D)
    /\ Unknown(D) = {} => last'.error = "none"

RawDict(i) == ComputeToDict(i, FALSE).d

\* C20: from_dict, given the dict E.to_dict() returned, on a newly
\* constructed object of the same type, succeeds and leaves an object whose
\* raw dict equals that dict on parent, depth, the property and comment.
C20_RoundTrip ==
    [][\A i \in live :
          last'.op = "from_dict" /\ last'.item = i /\ last'.fresh
          => /\ last'.error = "none"
             /\ RawDict(i)' = HandedDict
             /\ export'.comment[i] = HandedRest.comment]_vars

\* C20, resolved values: the new object resolves the property to the value
\* E resolves it to.
C20_RoundTripResolved ==
    [][\A i \in live :
          last'.op = "from_dict" /\ last'.item = i /\ last'.fresh
          => /\ last'.error = "none"
             /\ Getter(i, prop)' = Getter(export.handed.item, prop)]_vars

\* ------------------------------------------------------------------ C21

\* The objects of the collections that the dependency attributes of the
\* mapping saved for x name.
NamedAncestors(x) ==
    {a \in indexed :
        \E n \in DOMAIN AncestorDeps(TypeOf(x)) :
            LET d == AncestorDeps(TypeOf(x))[n]
            IN /\ ItemDictHas(x, d[2])
               /\ ItemDictAttr(x, d[2]) \notin {"", VALUE_INHERITED}
               /\ d[1] \in Types
               /\ CollectionGet(d[1], ItemDictAttr(x, d[2])) = a}

Pos(seq, x) == CHOOSE n \in 1..Len(seq) : seq[n] = x

\* The object is loaded with the attributes saved for it.
LoadedFromStore(x) ==
    /\ inmemory[x]
    /\ parent[x] = store[x].parent
    /\ depth[x] = store[x].depth
    /\ ref[x] = store[x].ref
    /\ stored[x] = store[x].val

\* The objects upward resolution on i can reach: parents and conceptual
\* parents, at any distance.
UpStep(x) == {ParentObj(x), Up(x)} \ {NONE}

RECURSIVE UpClosure(_, _)
UpClosure(S, n) ==
    IF n = 0 THEN S ELSE UpClosure(S \cup UNION {UpStep(x) : x \in S}, n - 1)

Ancestors(i) == UpClosure(UpStep(i), Cardinality(Items))

\* What C21 says of a deserialize call on i that applied from_dict to i.
AncestorsLoadedFirst(i) ==
    /\ last'.order[Len(last'.order)] = i
    /\ \A x \in SeqToSet(last'.order) :
          /\ LoadedFromStore(x)'
          /\ \A a \in NamedAncestors(x) :
                /\ inmemory'[a]
                /\ (~inmemory[a] => (/\ a \in SeqToSet(last'.order)
                                     /\ Pos(last'.order, a) < Pos(last'.order, x)))
    /\ \A a \in Ancestors(i)' : inmemory'[a]

RECURSIVE StoreClimb(_, _)
StoreClimb(i, n) ==
    IF store[i].parent = "" \/ CollectionGet(TypeOf(i), store[i].parent) = NONE THEN TRUE
    ELSE IF n = 0 THEN FALSE
    ELSE StoreClimb(CollectionGet(TypeOf(i), store[i].parent), n - 1)

StoreAcyclic == \A i \in live : StoreClimb(i, Cardinality(Items))

\* A deserialize call ends without exception when the saved parent names
\* have no cycle.
C21_ReturnsWhenStoreAcyclic ==
    [][(last'.op = "deserialize" /\ StoreAcyclic) => last'.st = "ok"]_vars

EnumWalk(i, p) ==
    LET r == resolve_get_parent_or_settings(i, p, SettingsName(p))
    IN IF r.st = "ok" THEN Ok(enum_type(r.v)) ELSE r

\* C22: resolve_enum on a property whose stored member unwraps to the
\* inherit sentinel returns what the walk of resolve finds first (direct
\* parent, conceptual parent, settings, default settings), wrapped in the
\* enum type.
C22_EnumWalksParents ==
    prop \in EnumProps =>
        \A i \in live :
            Unwrap(stored[i]) = VALUE_INHERITED
            => resolve_enum(i, prop) = EnumWalk(i, prop)

\* C22 for the objects that have neither a parent nor a conceptual parent.
C22_RootsUseSettings ==
    prop \in EnumProps =>
        \A i \in live :
            (Unwrap(stored[i]) = VALUE_INHERITED /\ Up(i) = NONE)
            => resolve_enum(i, prop) = EnumWalk(i, prop)

\* ------------------------------------------------------------------ C23

\* The mapping the parent chain of i resolves to: the value of the parent
\* (the conceptual parent of an object without parent), else the settings'.
InheritedMapping(i) ==
    IF Up(i) # NONE THEN Getter(Up(i), prop) ELSE SettingsFallback(prop)

\* What C23 says of the setters of the properties in P.
IdenticalStoresEmpty(P) ==
    prop \in P =>
        \A i \in live :
            InheritedMapping(i).st = "ok"
            => SetterValue(i, InheritedMapping(i).v) = Ok(Dict({}))

\* C23: the setter of an inheritable dict property (kernel_options,
\* kernel_options_post, autoinstall_meta, boot_files), given the mapping
\* the parent chain resolves to, stores an empty mapping.
C23_IdenticalStoresEmpty ==
    IdenticalStoresEmpty(DictProps \cup {"autoinstall_meta"})

\* C23 for the two properties whose setter deduplicates.
C23_DeduplicatingSetters ==
    IdenticalStoresEmpty({"kernel_options", "autoinstall_meta"})

\* ------------------------------------------------------------------ C24

\* The sources of deduplicate in the order of C24, each with the mapping it
\* has for the property or unresolved if it does not define it.
DedupSources(i, p) ==
    LET par == ParentObj(i)
        cp == get_conceptual_parent(i)
    IN << IF par # NONE THEN Getter(par, p) ELSE Unresolved,
          IF cp \notin {NONE, DIVERGES} THEN Getter(cp, p) ELSE Unresolved,
          IF SettingsName(p) \in DOMAIN settings
          THEN Ok(settings[SettingsName(p)]) ELSE Unresolved,
          IF DefaultName(SettingsName(p)) \in DOMAIN settings
          THEN Ok(settings[DefaultName(SettingsName(p))]) ELSE Unresolved >>

RECURSIVE FirstDefined(_, _)
FirstDefined(srcs, n) ==
    IF n > Len(srcs) THEN {}
    ELSE IF srcs[n].st = "ok" THEN srcs[n].v.m
    ELSE FirstDefined(srcs, n + 1)

\* C24: a deduplicate call that returns has removed from the value exactly
\* the pairs found in one reference mapping, that of the first of direct
\* parent, conceptual parent, settings and default settings that defines
\* the property (the empty mapping if none does); every other pair is kept.
C24_DedupAgainstFirstSource ==
    prop \in DictProps =>
        \A i \in live : \A v \in Mappings :
            deduplicate_dict(i, prop, v).st = "ok"
            => deduplicate_dict(i, prop, v).v
                  = Dict({e \in v : e \notin FirstDefined(DedupSources(i, prop), 1)})

\* The kernel_options setter has stored a pair on p1 that the distro of p1
\* does not supply and the default settings, a later source, do.
C24_KeptThoughLaterSourceHasIt ==
    /\ prop = "kernel_options"
    /\ Up("p1") = "d1"
    /\ Getter("d1", prop) = Ok(Dict({}))
    /\ DefaultName(SettingsName(prop)) \in DOMAIN settings
    /\ stored["p1"] = Dict({<<"k", "2">>})
    /\ <<"k", "2">> \in settings[DefaultName(SettingsName(prop))].m

\* ------------------------------------------------------------------ C25

\* What the settings give under a settings name: the attribute of that
\* name, else its default_ variant.
FromSettings(key) ==
    IF key \in DOMAIN settings THEN Ok(settings[key])
    ELSE IF DefaultName(key) \in DOMAIN settings THEN Ok(settings[DefaultName(key)])
    ELSE Unresolved

\* Neither the parent nor the conceptual parent of i has the property.
NothingAbove(i) ==
    /\ get_conceptual_parent(i) # DIVERGES
    /\ (ParentObj(i) = NONE \/ Getter(ParentObj(i), prop).st = "unresolved")
    /\ \/ get_conceptual_parent(i) = NONE
       \/ Getter(get_conceptual_parent(i), prop).st = "unresolved"

\* The settings key of C25, and the one with the property's own name kept
\* for the proxy_url_ properties.
ClaimedKey(p) ==
    IF IsProxyUrl(p) THEN "proxy"
    ELSE IF p = "owners" THEN "default_ownership"
    ELSE p

OwnNameKey(p) == IF p = "owners" THEN "default_ownership" ELSE p

\* C25: an inherit-valued property resolves through the settings key equal
\* to its name, a proxy_url_ property through the key proxy and owners
\* through the key default_ownership.
C25_ProxySettingsKey ==
    \A i \in live :
        (stored[i] = Inherit /\ NothingAbove(i))
        => resolve(i, prop) = FromSettings(ClaimedKey(prop))

\* C25 with the key of a proxy_url_ property being its own name.
C25_OwnNameSettingsKey ==
    \A i \in live :
        (stored[i] = Inherit /\ NothingAbove(i))
        => resolve(i, prop) = FromSettings(OwnNameKey(prop))

\* A sub-profile resolves proxy_url_ext to the settings' proxy_url_ext
\* while the settings have a proxy attribute as well.
C25_Witness ==
    /\ prop = "proxy_url_ext"
    /\ parent["p2"] = "p1"
    /\ stored["p2"] = Inherit
    /\ stored["p1"] = Scalar("a")
    /\ {"proxy", "proxy_url_ext"} \subseteq DOMAIN settings
    /\ resolve("p2", prop) = Ok(Scalar("proxy_url_ext"))

\* ------------------------------------------------------------------ C26

\* What C26 says of the outcome r of the base-level resolve on i.
BaseResolved(i, r) ==
    IF stored[i] # Inherit THEN r.st = "ok" /\ r.v = stored[i]
    ELSE IF SettingsName(prop) \in DOMAIN settings
    THEN r.st = "ok" /\ r.v = settings[SettingsName(prop)]
    ELSE IF DefaultName(SettingsName(prop)) \in DOMAIN settings
    THEN r.st = "ok" /\ r.v = settings[DefaultName(SettingsName(prop))]
    ELSE r.st = "unresolved" /\ r.msg = <<TypeOf(i), NameOf(i), prop>>

\* C26: the base-level resolve returns a concrete stored value unchanged;
\* for an inherit-valued property it returns settings[settings_name] if
\* present, else settings[default_<settings_name>] if present, else it
\* fails with an error naming the entity type, the entity name and the
\* property; the call leaves the state of every entity as it was.
C26_BaseResolve ==
    [][\A i \in live :
          (last'.op = "base_resolve" /\ last'.item = i)
          => /\ BaseResolved(i, last'.result)
             /\ UNCHANGED <<live, listing, name, uid, inmemory, parent, depth, ref,
                            stored, settings, cache>>]_vars

\* A base-level resolve has failed on p2, whose value is the inherit
\* sentinel, with settings that have neither attribute.
C26_Unresolved ==
    /\ last.op = "base_resolve"
    /\ last.item = "p2"
    /\ stored["p2"] = Inherit
    /\ last.result.st = "unresolved"
    /\ last.result.msg = <<"profile", "p2", prop>>

\* ------------------------------------------------------------------ C27

\* A criterion matches: find_match_single_key returns True for it, or, for
\* an expected value that starts with ~, returns False for the value
\* without the ~.
CriterionMatches(data, c, no_errors) ==
    IF c[2] # NULL /\ StartsWithTilde(c[2])
    THEN find_match_single_key(data, c[1], StripTilde(c[2]), no_errors) = "false"
    ELSE find_match_single_key(data, c[1], c[2], no_errors) = "true"

CriterionRaises(data, c, no_errors) ==
    find_match_single_key(data, c[1], StripTilde(c[2]), no_errors) \notin {"true", "false"}

\* C27: a find_match call that returns, returns True iff every criterion
\* matches via find_match_single_key, a leading ~ negating the criterion;
\* it ends with an exception only if find_match_single_key does for one of
\* the criteria; with no criteria it returns True.
C27_FindMatchAll ==
    [][last'.op = "find_match" =>
        LET c == last'.crit
            data == last'.data
            ne == last'.no_errors
        IN /\ (last'.result = "true"
                  <=> \A n \in 1..Len(c) : CriterionMatches(data, c[n], ne))
           /\ (last'.result \notin {"true", "false"}
                  => \E n \in 1..Len(c) : CriterionRaises(data, c[n], ne))
           /\ (c = << >> => last'.result = "true")]_vars

\* find_match has returned False on p2 for two criteria of which the first
\* matches and the second, negated, does not.
C27_Witness ==
    /\ last.op = "find_match"
    /\ last.item = "p2"
    /\ parent["p2"] = "p1"
    /\ last.crit = << <<"name", "p?">>, <<"parent", "~p1">> >>
    /\ last.result = "false"

\* ------------------------------------------------------------------ C28

\* C28: find_match_single_key with a key absent from the data never
\* raises: it returns False both with no_errors set and without; with the
\* key present and a null expected value it returns True.
C28_MissingKeyNeverRaises ==
    \A i \in live : \A key \in MatchKeys : \A v \in MatchValues \ {"~p1"} :
        \A no_errors \in BOOLEAN :
            LET data == MatchData(i, ComputeToDict(i, FALSE).d)
                r == find_match_single_key(data, key, v, no_errors)
            IN /\ (key \notin DOMAIN data => r = "false")
               /\ (key \in DOMAIN data /\ v = NULL => r = "true")

\* C28 without the lenient flag.
C28_StrictMissingKey ==
    \A i \in live : \A key \in MatchKeys : \A v \in MatchValues \ {"~p1"} :
        LET data == MatchData(i, ComputeToDict(i, FALSE).d)
            r == find_match_single_key(data, key, v, FALSE)
        IN /\ (key \notin DOMAIN data => r = "false")
           /\ (key \in DOMAIN data /\ v = NULL => r = "true")

\* ------------------------------------------------------------------ C29

\* The objects on the parent chain of i, i included.
RECURSIVE ParentChainFrom(_, _)
ParentChainFrom(S, n) ==
    IF n = 0 THEN S
    ELSE ParentChainFrom(S \cup ({ParentObj(x) : x \in S} \ {NONE}), n - 1)

ParentChain(i) == ParentChainFrom({i}, Cardinality(Items))

\* The object of type t the name nm stands for, if any.
Resolves(t, nm) == nm # "" /\ CollectionGet(t, nm) # NONE

\* What the logical-inheritance table gives for a root object.
TableFirst(root) ==
    CASE TypeOf(root) = "profile" ->
            IF Resolves("distro", ref[root].distro)
            THEN CollectionGet("distro", ref[root].distro) ELSE NONE
      [] TypeOf(root) = "system" ->
            IF Resolves("image", ref[root].image)
            THEN CollectionGet("image", ref[root].image)
            ELSE IF Resolves("profile", ref[root].profile)
            THEN CollectionGet("profile", ref[root].profile)
            ELSE NONE
      [] OTHER -> NONE

\* C29: a get_conceptual_parent call that returns gives, for the object
\* without parent at the top of the caller's parent chain, the first
\* object that resolves among the pairs of the root's type in table order
\* (a system: its image, else its profile; a profile: its distro), and
\* null when none resolves or the type has no pairs.
C29_ConceptualParent ==
    [][last'.op = "get_conceptual_parent" /\ last'.result # DIVERGES =>
        \E root \in ParentChain(last'.item) :
            /\ ParentObj(root) = NONE
            /\ last'.result = TableFirst(root)]_vars

\* The conceptual parent of the sub-profile p2, which names no distro, was
\* found to be the distro of its root profile p1.
C29_SubProfileGetsRootDistro ==
    /\ last.op = "get_conceptual_parent"
    /\ last.item = "p2"
    /\ parent["p2"] = "p1"
    /\ parent["p1"] = ""
    /\ ref["p2"].distro = ""
    /\ ref["p1"].distro = "d1"
    /\ last.result = "d1"

\* A system that names a stored image and a stored profile was asked: the
\* image is its conceptual parent.
C29_SystemImageFirst ==
    /\ last.op = "get_conceptual_parent"
    /\ last.item = "s1"
    /\ ref["s1"] = [profile |-> "p2", image |-> "i1"]
    /\ "i1" \in indexed
    /\ last.result = "i1"

\* ------------------------------------------------------------------ C30

\* The direct parent if there is one, else the conceptual parent.
LogicalParent(x) ==
    IF ParentObj(x) # NONE THEN ParentObj(x)
    ELSE TableFirst(x)

\* C30: the list a grab_tree call returns starts with the object itself
\* and ends with the settings; every element between them is the logical
\* parent of the element before it, and the element before the settings
\* has no logical parent; the list has at least two elements.
C30_GrabTreeShape ==
    [][last'.op = "grab_tree" /\ last'.result.ok =>
        LET L == last'.result.v
        IN /\ Len(L) >= 2
           /\ L[1] = last'.item
           /\ L[Len(L)] = SETTINGS
           /\ \A k \in 2..(Len(L) - 1) :
                 L[k] # NONE /\ L[k] = LogicalParent(L[k - 1])
           /\ LogicalParent(L[Len(L) - 1]) = NONE]_vars

\* grab_tree of the system went through its profile, the profile's parent
\* and that one's distro.
C30_Witness ==
    /\ last.op = "grab_tree"
    /\ last.item = "s1"
    /\ last.result.ok
    /\ last.result.v = <<"s1", "p2", "p1", "d1", SETTINGS>>

\* ------------------------------------------------------------------ C31

\* X is a child of Y: X is in the collection of Y's type and its parent
\* name is Y's name.
IsChild(x, y) ==
    x \in indexed /\ TypeOf(x) = TypeOf(y) /\ parent[x] = NameOf(y)

RECURSIVE ChildReachFrom(_, _)
ChildReachFrom(S, n) ==
    IF n = 0 THEN S
    ELSE ChildReachFrom(S \cup {x \in Items : \E y \in S : IsChild(x, y)}, n - 1)

\* The objects reachable from e by one or more child links.
ChildReach(e) ==
    ChildReachFrom({x \in Items : IsChild(x, e)}, Cardinality(Items))

\* No object is its own descendant.
ChildAcyclic == \A e \in live : e \notin ChildReach(e)

\* L lists the set S, each element once.
ListsOnce(L, S) == SeqToSet(L) = S /\ Len(L) = Cardinality(S)

\* Depth-first pre-order below e: the parent of every element is e or
\* stands earlier in L, and all between that parent and the element are
\* descendants of the parent.
PreOrder(L, e) ==
    \A k \in DOMAIN L :
        \/ IsChild(L[k], e)
        \/ \E j \in 1..(k - 1) :
              /\ IsChild(L[k], L[j])
              /\ \A m \in (j + 1)..k : L[m] \in ChildReach(L[j])

WalkOk(e, r) ==
    /\ r.ok
    /\ ListsOnce(r.v, ChildReach(e))
    /\ PreOrder(r.v, e)
    /\ (ChildReach(e) = {} => r.v = << >>)

\* C31: when the parent relation is acyclic, a tree_walk call on E returns
\* exactly the objects reachable from E by one or more child links, each
\* once, in depth-first pre-order, and the empty list when E has no
\* children.
C31_TreeWalkPreOrder ==
    [][last'.op = "tree_walk" /\ ChildAcyclic => WalkOk(last'.item, last'.result)]_vars

\* tree_walk of p1 with children p2 and p3, p4 being a child of p2: p4 is
\* listed after its parent p2 and before p2's next sibling p3.
C31_Witness ==
    /\ last.op = "tree_walk"
    /\ last.item = "p1"
    /\ ChildAcyclic
    /\ last.result.v = <<"p2", "p4", "p3">>

\* ------------------------------------------------------------------ C32

\* Outside e and its descendants no cache slot changes in the step, and of
\* the descendants no raw slot.
OnlyOwnAndDescendants(e) ==
    \A o \in Items \ {e} :
        /\ cache'[o].raw = cache[o].raw
        /\ (cache'[o].res = cache[o].res \/ o \in Reach(e))

\* C32: a setter call on E (the property setter or the parent setter)
\* leaves the raw slot of every descendant of E and both slots of every
\* object that is neither E nor a descendant of E unchanged.
C32_SetterFrame ==
    [][\A e \in live :
          \/ OnlyOwnAndDescendants(e)
          \/ ~(\/ \E v \in CacheInputs : SetAttr(e, v)
                \/ \E pname \in ParentInputs : SetParent(e, pname))]_vars

\* The owners setter was called on p1 while the caches of its descendant s1
\* and of the unrelated p2 were full: the raw slot of s1 and both slots of
\* p2 are still full, the resolved slot of s1 is empty.
C32_Witness ==
    /\ last = Call("set", "p1")
    /\ "p1" \in indexed
    /\ parent["p2"] = ""
    /\ cache["s1"].raw.full /\ ~cache["s1"].res.full
    /\ cache["p2"].raw.full /\ cache["p2"].res.full

\* ------------------------------------------------------------------ C33

\* The object is transient: its collection has no entry under its name.
Transient(e) == CollectionGet(TypeOf(e), NameOf(e)) = NONE

\* The step leaves the slots of every object but e as they are, and those
\* of e too when caching is disabled or e is name-only.
InvalidationSkipped(e) ==
    /\ \A o \in Items \ {e} : cache'[o] = cache[o]
    /\ (~cache_enabled \/ ~inmemory[e] => cache'[e] = cache[e])

\* C33: a setter call on an object while caching is disabled, or the
\* object is not loaded, or the object is transient, leaves the cache
\* slots of every other object unchanged; with caching disabled or the
\* object name-only its own slots are unchanged too.
C33_InvalidationSkipped ==
    [][\A e \in live :
          \/ cache' = cache
          \/ ~(~cache_enabled \/ ~inmemory[e] \/ Transient(e))
          \/ InvalidationSkipped(e)
          \/ ~(\/ \E v \in CacheInputs : SetAttr(e, v)
                \/ \E pname \in ParentInputs : SetParent(e, pname))]_vars

\* owners was set on the transient, cached p1 while the resolved slot of
\* the system that names it was full: that slot is still full, p1's own
\* slots are empty.
C33_TransientSkips ==
    /\ last = Call("set", "p1")
    /\ Transient("p1")
    /\ cache_enabled
    /\ cache["s1"].res.full
    /\ ~cache["p1"].raw.full /\ ~cache["p1"].res.full

\* owners was set on the stored, cached p1 while caching was disabled: the
\* slots of p1 and the resolved slot of its system are still full.
C33_DisabledSkips ==
    /\ last = Call("set", "p1")
    /\ ~Transient("p1")
    /\ ~cache_enabled
    /\ cache["s1"].res.full
    /\ cache["p1"].raw.full

\* owners was set on the stored, name-only p1: its slot and the resolved
\* slot of its system are still full.
C33_NameOnlySkips ==
    /\ last = Call("set", "p1")
    /\ ~Transient("p1")
    /\ cache_enabled /\ ~inmemory["p1"]
    /\ cache["s1"].res.full
    /\ cache["p1"].raw.full

\* ------------------------------------------------------------------ C34

\* C34: a setter call that raises (a name with a disallowed character,
\* owners of the wrong type, a parent equal to the object's own name or
\* naming no object of the collection) leaves the stored attributes of
\* every object, parent name and depth included, and the cache slots
\* unchanged.
C34_RaisingSetterChangesNothing ==
    [][last'.op = "raised" =>
        UNCHANGED <<name, uid, parent, depth, stored, ref, inmemory, cache, listing>>]_vars

\* A setter raised on objects that have a parent, a depth, a stored owners
\* value and full cache slots.
C34_Witness ==
    /\ last.op = "raised"
    /\ parent["p2"] = "p1" /\ depth["p2"] = 1
    /\ stored["p2"] = Scalar("a")
    /\ cache["p2"].raw.full /\ cache["p2"].res.full

\* ------------------------------------------------------------------ C35

\* What the getter of the object returns right after its attribute has
\* been given the value own: _resolve_dict with that attribute value.
GetAfterStore(i, own) ==
    IF get_conceptual_parent(i) = DIVERGES THEN Diverged
    ELSE MergeOver(GetterOf(get_conceptual_parent(i), prop), own, prop)

\* The setter is called with the mapping v and returns; the getter, called
\* next, returns a mapping that holds every pair of v.
SetThenGetHolds(i, v) ==
    SetterValue(i, Dict(v)).st = "ok"
    => /\ GetAfterStore(i, SetterValue(i, Dict(v)).v).st = "ok"
       /\ v \subseteq GetAfterStore(i, SetterValue(i, Dict(v)).v).v.m

\* C35: for kernel_options and autoinstall_meta on any object, a
\* sub-object whose direct parent of the same type defines keys of its own
\* included: right after the setter has stored a concrete mapping, the
\* getter returns a mapping that holds every pair of that mapping (under
\* settings that have the property itself, as the settings of a server do).
C35_SetThenGetHoldsAll ==
    (prop \in {"kernel_options", "autoinstall_meta"}
     /\ SettingsName(prop) \in DOMAIN settings) =>
        \A i \in live : \A v \in Mappings : SetThenGetHolds(i, v)

\* The same for an object without a direct parent, under settings that
\* have the property itself: what the setter removes, the getter supplies.
C35_RootSetThenGetHoldsAll ==
    prop \in {"kernel_options", "autoinstall_meta"} =>
        \A i \in live : \A v \in Mappings :
            (ParentObj(i) = NONE /\ SettingsName(prop) \in DOMAIN settings)
            => SetThenGetHolds(i, v)

\* p1 holds a pair of its own that its distro does not supply, and p2 is a
\* sub-object of p1.
C35_ParentHasOwnPair ==
    /\ prop = "kernel_options"
    /\ parent["p2"] = "p1" /\ Up("p1") = "d1"
    /\ stored["p1"] = Dict({<<"k", "1">>})
    /\ Getter("d1", prop) = Ok(Dict({}))

\* ------------------------------------------------------------------ C36

\* C36: from_dict restores the initialized flag of the object on every exit
\* path, also when a setter raises part-way: after a failed from_dict on an
\* initialized object the flag is set again and no cached dict holds a
\* value that from_dict has overwritten.
C36_FailedFromDictRestores ==
    [][\A i \in live :
          (has_initialized[i] /\ last'.op = "from_dict" /\ last'.item = i
           /\ last'.error = "setter")
          => /\ has_initialized'[i]
             /\ cache'[i].raw.full
                  => cache'[i].raw.d = Snapshot(parent'[i], depth'[i], stored'[i])]_vars

\* A later setter call that stores a value empties the raw slot of the
\* object.
C36_LaterSetterInvalidates ==
    [][\A v \in {Dict({}), Dict({<<"k", "1">>})} :
          SetAttr("p3", v) /\ stored'["p3"] # stored["p3"]
          => ~cache'["p3"].raw.full]_vars

\* On the exits where no setter raised, the flag is what it was.
C36_RestoredWhenNoSetterRaises ==
    [][\A i \in live :
          (last'.op = "from_dict" /\ last'.item = i /\ last'.error # "setter")
          => has_initialized'[i] = has_initialized[i]]_vars

\* from_dict has been left by a raising parent setter after it had set
\* kernel_options, with the raw slot of the object full.
C36_FailedWarm ==
    /\ last.op = "from_dict" /\ last.error = "setter" /\ last.warm
    /\ stored["p3"] = Dict({<<"k", "1">>})
    /\ ~has_initialized["p3"]

\* ------------------------------------------------------------------ C37

\* C37: setting the uid of an object that is not itself stored in its
\* collection's listing leaves the listing unchanged, also when another
\* object with the same lower-cased name is stored there.
C37_TransientUidLeavesIndex ==
    [][\A i \in live \ indexed :
          \/ listing' = listing
          \/ ~(\E u \in UidInputs : SetUid(i, u))]_vars

\* The same when no object is stored under the lower-cased name.
C37_NoNamesakeLeavesIndex ==
    [][\A i \in live \ indexed :
          \/ listing' = listing
          \/ CollectionGet(TypeOf(i), NameOf(i)) # NONE
          \/ ~(\E u \in UidInputs : SetUid(i, u))]_vars

\* p2, not stored, has the name under which p1 is stored.
C37_TransientNamesake ==
    /\ "p2" \notin indexed
    /\ Lower(NameOf("p2")) = "p1"
    /\ CollectionGet("profile", "p1") = "p1"

\* ------------------------------------------------------------------ C38

\* No call is under way.
AllIdle == \A th \in Threads : threads.t[th].pc = "idle"

\* A full slot of the object holds the dict to_dict would build now.
SlotsCurrent(i) ==
    \A resolved \in BOOLEAN :
        cache[i][SlotName(resolved)].full
        => /\ ComputeToDict(i, resolved).st = "ok"
           /\ cache[i][SlotName(resolved)].d = ComputeToDict(i, resolved).d

\* C38: a thread runs a property setter on an object while another runs
\* to_dict on it; once both have finished, every full cache slot of the
\* object holds the newly stored value, whatever the interleaving.
C38_NoStaleAfterRace ==
    AllIdle => \A i \in live : SlotsCurrent(i)

\* A to_dict call holds a dict it has built and not yet stored while a
\* setter call has cleaned the cache and not yet assigned.
C38_BothInsideTheWindows ==
    /\ threads.t["t1"].pc = "assign_attr"
    /\ threads.t["t2"].pc = "put"

====
